---- MODULE Spec2Model ----
(***************************************************************************)
(* Model of the structural compliance engine: the formula library          *)
(* (backend/utils/formulas.py), the load calculator                        *)
(* (backend/utils/load_calculator.py), the four member checkers            *)
(* (backend/utils/*_checker.py) and the orchestrator                       *)
(* (backend/api/check_code_new.py).                                        *)
(*                                                                         *)
(* Python floats are modelled as decimal floating point numbers with an    *)
(* eight digit mantissa, [m |-> mantissa, e |-> exponent] standing for     *)
(* m * 10^e, rounded to nearest after every operation.  A raised Python    *)
(* exception is the value [err |-> kind]; every operation propagates the   *)
(* exception of its first faulty operand, as left-to-right evaluation does.*)
(***************************************************************************)
EXTENDS Integers, Sequences, FiniteSets, TLC

VARIABLES design_data, heap, results, edits

vars == <<design_data, heap, results, edits>>

----------------------------------------------------------------------------
(* Python float arithmetic                                                 *)

P10 == <<10, 100, 1000, 10000, 100000, 1000000, 10000000, 100000000, 1000000000>>

Pow10(k) == IF k = 0 THEN 1 ELSE P10[k]

MantLo == Pow10(7)

MantHi == Pow10(8)

Raise(kind) == [err |-> kind]

IsErr(x) == "err" \in DOMAIN x

Abs(n) == IF n < 0 THEN -n ELSE n

Sgn(n) == IF n < 0 THEN -1 ELSE 1

NumDigits(a) ==
    IF a < 10 THEN 1 ELSE IF a < 100 THEN 2 ELSE IF a < 1000 THEN 3
    ELSE IF a < 10000 THEN 4 ELSE IF a < 100000 THEN 5
    ELSE IF a < 1000000 THEN 6 ELSE IF a < 10000000 THEN 7
    ELSE IF a < 100000000 THEN 8 ELSE IF a < 1000000000 THEN 9 ELSE 10

Zero == [m |-> 0, e |-> 0]

\* a / cut rounded to nearest (half up), cut a power of ten
RoundDiv(a, cut) == a \div cut + (IF 2 * (a % cut) >= cut THEN 1 ELSE 0)

\* s * q * 10^e, q of eight digits, or 10^8 after rounding up
Carry(s, q, e) ==
    IF q >= MantHi THEN [m |-> s * MantLo, e |-> e + 1]
    ELSE [m |-> s * q, e |-> e]

\* s * a * 10^e for a of dg digits
Digits(s, a, e, dg) ==
    IF dg <= 8 THEN [m |-> s * a * Pow10(8 - dg), e |-> e - (8 - dg)]
    ELSE Carry(s, RoundDiv(a, Pow10(dg - 8)), e + (dg - 8))

\* The float nearest to s * a * 10^e (a >= 0): eight significant digits.
Norm(s, a, e) == IF a = 0 THEN Zero ELSE Digits(s, a, e, NumDigits(a))

\* The float of the decimal literal n * 10^e, e.g. F(87, -2) is 0.87.
F(n, e) == Norm(Sgn(n), Abs(n), e)

I(n) == F(n, 0)

Neg(x) == IF IsErr(x) THEN x ELSE [m |-> -x.m, e |-> x.e]

MulJoin(hh, t) == (hh + t \div 10000) * 10 + (t % 10000) \div 1000

\* the leading digits of a * b for mantissas a and b, in four digit halves
MulMant(a, b) ==
    MulJoin((a \div 10000) * (b \div 10000),
            (a \div 10000) * (b % 10000) + (a % 10000) * (b \div 10000)
                + ((a % 10000) * (b % 10000)) \div 10000)

Mul(x, y) ==
    IF IsErr(x) THEN x ELSE IF IsErr(y) THEN y
    ELSE IF x.m = 0 \/ y.m = 0 THEN Zero
    ELSE Norm(Sgn(x.m) * Sgn(y.m), MulMant(Abs(x.m), Abs(y.m)), x.e + y.e + 7)

RECURSIVE LongDiv(_, _, _, _)
LongDiv(r, b, k, acc) ==
    IF k = 0 THEN acc
    ELSE LongDiv((r % b) * 10, b, k - 1, acc * 10 + r \div b)

\* s * (a / b) * 10^e for mantissas a and b; pre: a < b
DivMant(s, a, b, e, pre) == Norm(s, LongDiv(a * Pow10(pre), b, 9, 0), e - pre)

Div(x, y) ==
    IF IsErr(x) THEN x ELSE IF IsErr(y) THEN y
    ELSE IF y.m = 0 THEN Raise("ZeroDivisionError")
    ELSE IF x.m = 0 THEN Zero
    ELSE DivMant(Sgn(x.m) * Sgn(y.m), Abs(x.m), Abs(y.m), x.e - y.e - 8,
                 IF Abs(x.m) < Abs(y.m) THEN 1 ELSE 0)

\* hi + lo for hi.e >= lo.e
AddAligned(hi, lo) ==
    IF hi.e - lo.e > 9 THEN hi
    ELSE F(hi.m * 10
             + Sgn(lo.m) * RoundDiv(Abs(lo.m) * 10, Pow10(hi.e - lo.e)),
           hi.e - 1)

Add(x, y) ==
    IF IsErr(x) THEN x ELSE IF IsErr(y) THEN y
    ELSE IF y.m = 0 THEN x ELSE IF x.m = 0 THEN y
    ELSE IF x.e >= y.e THEN AddAligned(x, y) ELSE AddAligned(y, x)

Sub(x, y) == Add(x, Neg(y))

\* x < y on floats.  With a raised operand the comparison is never reached
\* in the program; the value given here is not used.
Less(x, y) ==
    IF IsErr(x) \/ IsErr(y) THEN FALSE
    ELSE IF x.m = 0 THEN y.m > 0
    ELSE IF y.m = 0 THEN x.m < 0
    ELSE IF Sgn(x.m) # Sgn(y.m) THEN x.m < 0
    ELSE IF x.m > 0
         THEN x.e < y.e \/ (x.e = y.e /\ x.m < y.m)
         ELSE x.e > y.e \/ (x.e = y.e /\ x.m < y.m)

Lt(x, y) == Less(x, y)

Le(x, y) == ~Less(y, x)

GeStrict(x, y) == Less(y, x)

Ge(x, y) == ~Less(x, y)

Gt(x, y) == Less(y, x)

Max2(x, y) ==
    IF IsErr(x) THEN x ELSE IF IsErr(y) THEN y
    ELSE IF Less(x, y) THEN y ELSE x

Min2Larger(x, y) ==
    IF IsErr(x) THEN x ELSE IF IsErr(y) THEN y
    ELSE IF Less(y, x) THEN x ELSE y

Min2(x, y) ==
    IF IsErr(x) THEN x ELSE IF IsErr(y) THEN y
    ELSE IF Less(y, x) THEN y ELSE x

RECURSIVE NewtonSqrt(_, _, _)
NewtonSqrt(x, y, k) ==
    IF k = 0 \/ IsErr(y) THEN y
    ELSE NewtonSqrt(x, Div(Add(y, Div(x, y)), I(2)), k - 1)

\* math.sqrt
Sqrt(x) ==
    IF IsErr(x) THEN x
    ELSE IF x.m < 0 THEN Raise("ValueError")
    ELSE IF x.m = 0 THEN Zero
    ELSE LET k  == x.e + 7
             k2 == k \div 2
             g  == IF k - 2 * k2 = 0 THEN F(2, k2) ELSE F(5, k2)
         IN  NewtonSqrt(x, g, 7)

\* the Newton step for y^5 = z, y2 the square of y
Root5Step(z, y, y2) == Div(Add(Mul(I(4), y), Div(z, Mul(y2, y2))), I(5))

RECURSIVE NewtonRoot5(_, _, _)
NewtonRoot5(z, y, k) ==
    IF k = 0 \/ IsErr(y) THEN y
    ELSE NewtonRoot5(z, Root5Step(z, y, Mul(y, y)), k - 1)

Root5Guess == <<F(16, -1), F(26, -1), I(4), F(64, -1), I(10)>>

Root5(z) ==
    LET k  == z.e + 7
        k5 == k \div 5
        g  == Mul(Root5Guess[k - 5 * k5 + 1], F(1, k5))
    IN  NewtonRoot5(z, g, 10)

\* x ** 0.15 for x > 0, as ((x^3)^(1/5))^(1/4)
Pow015(x) ==
    IF IsErr(x) THEN x ELSE Sqrt(Sqrt(Root5(Mul(x, Mul(x, x)))))

\* int(x) of a float: truncation towards zero
Trunc(x) ==
    IF IsErr(x) THEN x
    ELSE IF x.e >= 0 THEN x
    ELSE IF -x.e >= 8 THEN Zero
    ELSE Norm(Sgn(x.m), Abs(x.m) \div Pow10(-x.e), 0)

\* s * a / cut to the nearest integer, ties to even, as a float of nd decimals
RoundAt(s, a, cut, nd) ==
    Norm(s, a \div cut
              + (IF 2 * (a % cut) > cut
                    \/ (2 * (a % cut) = cut /\ (a \div cut) % 2 = 1)
                 THEN 1 ELSE 0),
         -nd)

\* round(x, nd): to nd decimals, ties to even
Round(x, nd) ==
    IF IsErr(x) THEN x
    ELSE IF x.e >= -nd THEN x
    ELSE IF -nd - x.e > 8 THEN Zero
    ELSE RoundAt(Sgn(x.m), Abs(x.m), Pow10(-nd - x.e), nd)

\* math.pi
Pi == F(31415927, -7)

----------------------------------------------------------------------------
(* Python values.  A value held in a dict is tagged with its type:         *)
(*   [t |-> "num", v |-> x]       an int or a float x                      *)
(*   [t |-> "numstr", v |-> x, dot |-> b]  a str holding the decimal text  *)
(*                                of x; dot: the text is a float literal   *)
(*   [t |-> "str", s |-> text]    any other str                            *)
(*   [t |-> "bool", b |-> b], [t |-> "none"]                               *)
(*   [t |-> "dict", d |-> f]      a dict, f its key -> value function      *)
(*   [t |-> "ref", a |-> n]       a dict object held at heap[n]            *)

PyNum(x) == IF IsErr(x) THEN x ELSE [t |-> "num", v |-> x]

PyNumStr(x, dot) == [t |-> "numstr", v |-> x, dot |-> dot]

PyStr(s) == [t |-> "str", s |-> s]

PyBool(b) == [t |-> "bool", b |-> b]

PyNone == [t |-> "none"]

PyDict(f) == [t |-> "dict", d |-> f]

PyRef(a) == [t |-> "ref", a |-> a]

\* a str whose characters the program inspects (member_type), as the
\* sequence of its characters
PyChars(c) == [t |-> "chars", c |-> c]

EmptyDict == PyDict(<<>>)

IsDict(x) == ~IsErr(x) /\ x.t = "dict"

\* bool(x): the truth value Python's if/not/or take of x
Truthy(x) ==
    CASE x.t = "none" -> FALSE
      [] x.t = "bool" -> x.b
      [] x.t = "num" -> x.v.m # 0
      [] x.t = "numstr" -> TRUE
      [] x.t = "str" -> x.s # ""
      [] x.t = "chars" -> x.c # <<>>
      [] x.t = "dict" -> DOMAIN x.d # {}
      [] OTHER -> TRUE

\* float(x)
ToFloat(x) ==
    IF IsErr(x) THEN x
    ELSE CASE x.t = "num" -> x.v
           [] x.t = "numstr" -> x.v
           [] x.t = "bool" -> IF x.b THEN I(1) ELSE Zero
           [] x.t \in {"str", "chars"} -> Raise("ValueError")
           [] OTHER -> Raise("TypeError")

\* int(x)
ToInt(x) ==
    IF IsErr(x) THEN x
    ELSE CASE x.t = "num" -> Trunc(x.v)
           [] x.t = "numstr" -> IF x.dot THEN Raise("ValueError") ELSE x.v
           [] x.t = "bool" -> IF x.b THEN I(1) ELSE Zero
           [] x.t \in {"str", "chars"} -> Raise("ValueError")
           [] OTHER -> Raise("TypeError")

\* str(x) of a float x: its decimal text, a float literal
Str(x) == IF IsErr(x) THEN x ELSE PyNumStr(x, TRUE)

\* d[k]
Index(d, k) ==
    IF IsErr(d) THEN d
    ELSE IF d.t # "dict" THEN Raise("TypeError")
    ELSE IF k \in DOMAIN d.d THEN d.d[k] ELSE Raise("KeyError")

\* d.get(k, default)
Get(d, k, default) ==
    IF IsErr(d) THEN d
    ELSE IF d.t # "dict" THEN Raise("AttributeError")
    ELSE IF k \in DOMAIN d.d THEN d.d[k] ELSE default

\* k in d
HasKey(d, k) == k \in DOMAIN d.d

\* d[k] = v
SetItem(d, k, v) == PyDict((k :> v) @@ d.d)

\* d.setdefault(k, v)
SetDefault(d, k, v) == IF k \in DOMAIN d.d THEN d ELSE SetItem(d, k, v)

LookupStrict(table, key, default) ==
    IF IsErr(key) THEN key
    ELSE IF key.t = "str" /\ key.s \in DOMAIN table THEN table[key.s]
    ELSE Raise("KeyError")

\* table.get(key, default) on a str-keyed table of floats
Lookup(table, key, default) ==
    IF IsErr(key) THEN key
    ELSE IF key.t = "str" /\ key.s \in DOMAIN table THEN table[key.s]
    ELSE IF key.t = "dict" THEN Raise("TypeError")
    ELSE default

RECURSIVE FirstErrFrom(_, _)
FirstErrFrom(seq, i) ==
    IF i > Len(seq) THEN [ok |-> TRUE]
    ELSE IF IsErr(seq[i]) THEN seq[i]
    ELSE FirstErrFrom(seq, i + 1)

\* The exception the statements that computed seq (in program order) raise
\* first, or [ok |-> TRUE] when none raises.
FirstErr(seq) == FirstErrFrom(seq, 1)

\* A sequence of assignments: Only([x \in {e} |-> rest]) is rest with x
\* standing for the value of e, computed once.
Only(f) == f[CHOOSE x \in DOMAIN f : TRUE]

----------------------------------------------------------------------------
(* backend/utils/formulas.py                                               *)

CONCRETE_GRADES ==
    [M15 |-> I(15), M20 |-> I(20), M25 |-> I(25), M30 |-> I(30),
     M35 |-> I(35), M40 |-> I(40), M45 |-> I(45), M50 |-> I(50),
     M55 |-> I(55), M60 |-> I(60)]

STEEL_GRADES ==
    [Fe415 |-> I(415), Fe500 |-> I(500), Fe550 |-> I(550), Fe600 |-> I(600)]

CONCRETE_DENSITY == I(25)

LOAD_FACTOR_DEAD == F(15, -1)

LOAD_FACTOR_LIVE == F(15, -1)

\* calculate_design_moment(span, udl) with no point loads
calculate_design_moment(span, udl) ==
    LET moment_udl   == Div(Mul(udl, Mul(span, span)), I(8))
        moment_point == Zero
    IN  Add(moment_udl, moment_point)

\* calculate_design_shear(span, udl) with no point loads
calculate_design_shear(span, udl) ==
    LET shear_udl   == Div(Mul(udl, span), I(2))
        shear_point == Zero
    IN  Add(shear_udl, shear_point)

\* "Convert moment to Nmm if in kNm": a moment below 1000 is taken as kNm
MomentInNmm(moment) ==
    IF Less(moment, I(1000)) THEN Mul(moment, F(1, 6)) ELSE moment

calculate_required_area_of_steel(moment0, fck, fy, b, d) ==
    Only([moment \in {MomentInNmm(moment0)},
          xu_max \in {Mul(F(48, -2), d)} |->
    Only([Mu_lim \in {Mul(Mul(Mul(Mul(F(36, -2), fck), b), xu_max),
                          Sub(d, Mul(F(42, -2), xu_max)))} |->
    Only([under \in {FirstErr(<<moment, Mu_lim>>)} |->
        IF IsErr(under) THEN under
        ELSE IF Le(moment, Mu_lim)
        THEN LET k == Div(moment, Mul(Mul(fck, b), Mul(d, d)))
                 j == Sub(I(1), Div(k, I(3)))
             IN  Div(moment, Mul(Mul(Mul(F(87, -2), fy), j), d))
        ELSE Div(moment, Mul(Mul(Mul(F(87, -2), fy), F(9, -1)), d))])])])

\* IS 456 Table 19 for fck <= 20: (upper pt bound, tau_c) rows, then 0.58
ShearTable ==
    << <<F(15, -2), F(28, -2)>>, <<F(25, -2), F(30, -2)>>,
       <<F(50, -2), F(35, -2)>>, <<F(75, -2), F(39, -2)>>,
       <<F(100, -2), F(42, -2)>>, <<F(125, -2), F(45, -2)>>,
       <<F(150, -2), F(48, -2)>>, <<F(175, -2), F(50, -2)>>,
       <<F(200, -2), F(52, -2)>>, <<F(225, -2), F(54, -2)>>,
       <<F(250, -2), F(56, -2)>>, <<F(275, -2), F(57, -2)>> >>

RECURSIVE ShearTableRow(_, _)
ShearTableRow(pt, rows) ==
    IF rows = <<>> THEN F(58, -2)
    ELSE IF Le(pt, Head(rows)[1]) THEN Head(rows)[2]
    ELSE ShearTableRow(pt, Tail(rows))

calculate_shear_capacity(b, d, fck, Ast) ==
    Only([pt \in {Min2(IF Gt(Ast, Zero)
                       THEN Div(Mul(I(100), Ast), Mul(b, d))
                       ELSE F(15, -2),
                       I(3))} |->
    Only([under \in {FirstErr(<<Ast, pt, fck>>)} |->
        LET tau_c ==
                IF IsErr(under) THEN under
                ELSE IF Le(fck, I(20)) THEN ShearTableRow(pt, ShearTable)
                ELSE LET base_tau_c ==
                             Add(F(28, -2), Mul(Sub(pt, F(15, -2)), F(2, -2)))
                     IN  Mul(base_tau_c, Sqrt(Div(fck, I(20))))
        IN  Mul(Mul(tau_c, b), d)])])

calculate_deflection_ratio(span, loading_type) ==
    IF loading_type = "cantilever" THEN I(7)
    ELSE IF loading_type = "simply_supported" THEN I(20)
    ELSE IF loading_type = "continuous" THEN I(26)
    ELSE I(20)

check_minimum_steel_swapped(Ast_provided, b, d, fy) ==
    LET Ast_min == Mul(Mul(Div(F(85, -2), fy), b), d)
    IN  [adequate |-> Le(Ast_provided, Ast_min), limit |-> Ast_min]

\* check_minimum_steel returns (is_adequate, min_required)
check_minimum_steel(Ast_provided, b, d, fy) ==
    LET Ast_min == Mul(Mul(Div(F(85, -2), fy), b), d)
    IN  [adequate |-> Ge(Ast_provided, Ast_min), limit |-> Ast_min]

\* check_maximum_steel returns (is_adequate, max_allowed)
check_maximum_steel(Ast_provided, b, d) ==
    LET Ast_max == Mul(Mul(F(4, -2), b), d)
    IN  [adequate |-> Le(Ast_provided, Ast_max), limit |-> Ast_max]

----------------------------------------------------------------------------
(* The member checkers.  A checker returns a dict: the model holds it as a *)
(* record whose checks field is the sequence of the checks dict's entries  *)
(* in insertion order, each entry carrying its key as name.                *)

BEAM == PyChars(<<"b", "e", "a", "m">>)

COLUMN == PyChars(<<"c", "o", "l", "u", "m", "n">>)

SLAB == PyChars(<<"s", "l", "a", "b">>)

FOOTING == PyChars(<<"f", "o", "o", "t", "i", "n", "g">>)

AnyPass(checks) == \E i \in DOMAIN checks : checks[i].pass

\* all(check['pass'] for check in checks.values())
AllPass(checks) == \A i \in DOMAIN checks : checks[i].pass

ErrorResultWithChecks(msg, e, mt) ==
    [error |-> [msg |-> msg, detail |-> PyStr(e.err)], member_type |-> mt,
     checks |-> <<>>, overall_compliance |-> FALSE]

\* the except branch of a checker: {'error': f'{msg}: {str(e)}', 'member_type': mt}
ErrorResult(msg, e, mt) ==
    [error |-> [msg |-> msg, detail |-> PyStr(e.err)], member_type |-> mt]

\* math.pi * (bar_dia/2)**2
BarArea(bar_dia) ==
    LET r == Div(bar_dia, I(2)) IN Mul(Pi, Mul(r, r))

\* backend/utils/beam_checker.py
check_beam_compliance(data) ==
    Only([dimensions \in {Index(data, "dimensions")},
          loads \in {Index(data, "loads")},
          materials \in {Index(data, "materials")},
          reinforcement \in {Index(data, "reinforcement")},
          kt \in {I(1)} |->
    Only([span \in {Mul(ToFloat(Get(dimensions, "length", PyNum(Zero))), I(1000))},
          width \in {ToFloat(Get(dimensions, "breadth", PyNum(Zero)))},
          depth \in {ToFloat(Get(dimensions, "depth", PyNum(Zero)))},
          cover \in {ToFloat(Get(reinforcement, "cover", PyNum(I(25))))},
          bar_dia \in {ToFloat(Get(reinforcement, "bar_diameter", PyNum(I(16))))},
          concrete_grade \in {Get(materials, "concrete_grade", PyStr("M20"))},
          steel_grade \in {Get(materials, "steel_grade", PyStr("Fe500"))},
          dead_load \in {ToFloat(Get(loads, "dead_load", PyNum(Zero)))},
          live_load \in {ToFloat(Get(loads, "live_load", PyNum(Zero)))},
          num_bars \in {ToInt(Get(reinforcement, "num_bars", PyNum(I(2))))} |->
    Only([d \in {Sub(Sub(depth, cover), Div(bar_dia, I(2)))},
          fck \in {Lookup(CONCRETE_GRADES, concrete_grade, I(20))},
          fy \in {Lookup(STEEL_GRADES, steel_grade, I(500))},
          wu \in {Add(Mul(LOAD_FACTOR_DEAD, dead_load), Mul(LOAD_FACTOR_LIVE, live_load))},
          bar_area \in {BarArea(bar_dia)},
          basic_ratio \in {calculate_deflection_ratio(span, "simply_supported")},
          available_length \in {Div(span, I(2))} |->
    Only([Mu \in {calculate_design_moment(Div(span, I(1000)), wu)},
          Vu \in {calculate_design_shear(Div(span, I(1000)), wu)},
          Ast_provided \in {Mul(num_bars, bar_area)},
          actual_ratio \in {Div(span, d)},
          allowable_ratio \in {Mul(basic_ratio, kt)},
          ld \in {Div(Mul(bar_dia, fy), Mul(I(4), Sqrt(fck)))} |->
    Only([Mu_nmm \in {Mul(Mu, F(1, 6))},
          Vu_n \in {Mul(Vu, I(1000))},
          minimum \in {check_minimum_steel(Ast_provided, width, d, fy)},
          maximum \in {check_maximum_steel(Ast_provided, width, d)},
          Vc \in {calculate_shear_capacity(width, d, fck, Ast_provided)} |->
    Only([Ast_required \in {calculate_required_area_of_steel(Mu_nmm, fck, fy, width, d)} |->
    Only([fs \in {IF Gt(Ast_provided, Zero)
                  THEN Div(Mul(Mul(F(58, -2), fy), Ast_required), Ast_provided)
                  ELSE Mul(F(58, -2), fy)} |->
    Only([raised \in {FirstErr(<<dimensions, loads, materials, reinforcement,
                                 span, width, depth, cover, bar_dia, d,
                                 concrete_grade, steel_grade, fck, fy,
                                 dead_load, live_load, wu, Mu, Vu, Mu_nmm, Vu_n,
                                 Ast_required, num_bars, bar_area, Ast_provided,
                                 minimum.limit, maximum.limit, Vc,
                                 actual_ratio, fs, allowable_ratio,
                                 ld, available_length>>)} |->
    LET checks == <<
            [name |-> "flexural_strength",
             required_steel |-> Round(Ast_required, 2),
             provided_steel |-> Round(Ast_provided, 2),
             pass |-> Ge(Ast_provided, Ast_required),
             description |-> "Flexural reinforcement adequacy"],
            [name |-> "minimum_steel",
             minimum_required |-> Round(minimum.limit, 2),
             provided_steel |-> Round(Ast_provided, 2),
             pass |-> minimum.adequate,
             description |-> "Minimum tension reinforcement (IS 456 Cl. 26.5.1.1)"],
            [name |-> "maximum_steel",
             maximum_allowed |-> Round(maximum.limit, 2),
             provided_steel |-> Round(Ast_provided, 2),
             pass |-> maximum.adequate,
             description |-> "Maximum tension reinforcement (IS 456 Cl. 26.5.1.1)"],
            [name |-> "shear_strength",
             design_shear |-> Round(Vu_n, 2),
             shear_capacity |-> Round(Vc, 2),
             pass |-> Ge(Vc, Vu_n),
             description |-> "Shear strength without stirrups (IS 456 Cl. 40)"],
            [name |-> "deflection",
             actual_span_depth_ratio |-> Round(actual_ratio, 2),
             allowable_span_depth_ratio |-> Round(allowable_ratio, 2),
             pass |-> Le(actual_ratio, allowable_ratio),
             description |-> "Deflection control (IS 456 Cl. 23.2.1)"],
            [name |-> "development_length",
             required_length |-> Round(ld, 2),
             available_length |-> Round(available_length, 2),
             pass |-> Ge(available_length, ld),
             description |-> "Development length (IS 456 Cl. 26.2.1)"] >>
        overall_pass == AllPass(checks)
    IN  IF IsErr(raised)
        THEN ErrorResult("Beam compliance check failed", raised, BEAM)
        ELSE [member_type |-> BEAM,
              overall_compliance |-> overall_pass,
              design_summary |->
                  [span |-> span, width |-> width, depth |-> depth,
                   effective_depth |-> Round(d, 2),
                   design_moment |-> Round(Mu, 2),
                   design_shear |-> Round(Vu, 2),
                   concrete_grade |-> concrete_grade,
                   steel_grade |-> steel_grade],
              checks |-> checks,
              status |-> IF overall_pass THEN "PASS" ELSE "FAIL"]])])])])])])])])

TiesCompared(reinforcement, tie_dia, tie_spacing) ==
    /\ Ge(ToFloat(Get(reinforcement, "tie_diameter", PyNum(tie_dia))), tie_dia)
    /\ Le(ToFloat(Get(reinforcement, "tie_spacing", PyNum(tie_spacing))),
          tie_spacing)

\* 'pass': True  # Assume adequate for now
TiesAdequate(reinforcement, tie_dia, tie_spacing) == TRUE

\* backend/utils/column_checker.py
check_column_compliance(data) ==
    Only([dimensions \in {Index(data, "dimensions")},
          loads \in {Index(data, "loads")},
          materials \in {Index(data, "materials")},
          reinforcement \in {Index(data, "reinforcement")} |->
    Only([width \in {ToFloat(Get(dimensions, "breadth", PyNum(Zero)))},
          depth \in {ToFloat(Get(dimensions, "depth", PyNum(Zero)))},
          height \in {Mul(ToFloat(Get(dimensions, "length", PyNum(Zero))), I(1000))},
          cover \in {ToFloat(Get(reinforcement, "cover", PyNum(I(40))))},
          concrete_grade \in {Get(materials, "concrete_grade", PyStr("M20"))},
          steel_grade \in {Get(materials, "steel_grade", PyStr("Fe500"))},
          axial_load \in {ToFloat(Get(loads, "axial_load", PyNum(Zero)))},
          moment \in {ToFloat(Get(loads, "moment", PyNum(Zero)))},
          bar_dia \in {ToFloat(Get(reinforcement, "bar_diameter", PyNum(I(16))))},
          num_bars \in {ToInt(Get(reinforcement, "num_bars", PyNum(I(8))))} |->
    Only([fck \in {Lookup(CONCRETE_GRADES, concrete_grade, I(20))},
          fy \in {Lookup(STEEL_GRADES, steel_grade, I(500))},
          Pu \in {Mul(LOAD_FACTOR_DEAD, axial_load)},
          Mu \in {Mul(LOAD_FACTOR_DEAD, moment)},
          Ag \in {Mul(width, depth)},
          bar_area \in {BarArea(bar_dia)},
          min_dimension \in {Min2(width, depth)},
          effective_length \in {height},
          least_radius \in {Div(Min2(width, depth), Mul(I(2), Sqrt(I(3))))},
          min_bars \in {IF Le(Min2(width, depth), I(200)) THEN I(4) ELSE I(6)},
          tie_dia \in {Max2(I(6), Div(bar_dia, I(4)))},
          tie_spacing \in {Min2(Min2(Min2(width, depth), Mul(I(16), bar_dia)), I(300))} |->
    Only([Ast \in {Mul(num_bars, bar_area)},
          slenderness_ratio \in {Div(effective_length, least_radius)},
          Ast_min \in {Mul(F(8, -3), Ag)},
          Ast_max \in {Mul(F(4, -2), Ag)} |->
    Only([Pu_max \in {Div(Add(Mul(Mul(F(4, -1), fck), Sub(Ag, Ast)),
                              Mul(Mul(F(67, -2), fy), Ast)), I(1000))},
          steel_percentage \in {Div(Mul(I(100), Ast), Ag)} |->
    Only([raised \in {FirstErr(<<dimensions, loads, materials, reinforcement,
                                 width, depth, height, cover,
                                 concrete_grade, steel_grade, fck, fy,
                                 axial_load, moment, Pu, Mu, Ag,
                                 bar_dia, num_bars, bar_area, Ast,
                                 min_dimension, least_radius, slenderness_ratio,
                                 Ast_min, Ast_max, Pu_max, min_bars,
                                 tie_dia, tie_spacing, steel_percentage>>)} |->
    LET checks == <<
            [name |-> "minimum_dimension",
             minimum_dimension |-> min_dimension,
             required_minimum |-> I(200),
             pass |-> Ge(min_dimension, I(200)),
             description |-> "Minimum column dimension (IS 456 Cl. 25.1.2)"],
            [name |-> "slenderness_ratio",
             slenderness_ratio |-> Round(slenderness_ratio, 2),
             maximum_allowed |-> I(60),
             pass |-> Le(slenderness_ratio, I(60)),
             description |-> "Slenderness ratio (IS 456 Cl. 25.3)"],
            [name |-> "minimum_steel",
             minimum_required |-> Round(Ast_min, 2),
             provided_steel |-> Round(Ast, 2),
             pass |-> Ge(Ast, Ast_min),
             description |-> "Minimum longitudinal reinforcement (IS 456 Cl. 26.5.3.1 a)"],
            [name |-> "maximum_steel",
             maximum_allowed |-> Round(Ast_max, 2),
             provided_steel |-> Round(Ast, 2),
             pass |-> Le(Ast, Ast_max),
             description |-> "Maximum longitudinal reinforcement (IS 456 Cl. 26.5.3.1 c)"],
            [name |-> "axial_capacity",
             design_load |-> Round(Pu, 2),
             capacity |-> Round(Pu_max, 2),
             pass |-> Le(Pu, Pu_max),
             description |-> "Axial load capacity (IS 456 Cl. 39.3)"],
            [name |-> "minimum_bars",
             minimum_required |-> min_bars,
             provided_bars |-> num_bars,
             pass |-> Ge(num_bars, min_bars),
             description |-> "Minimum number of longitudinal bars (IS 456 Cl. 26.5.3.1 d)"],
            [name |-> "tie_reinforcement",
             minimum_tie_diameter |-> Round(tie_dia, 2),
             maximum_tie_spacing |-> Round(tie_spacing, 2),
             description |-> "Tie reinforcement requirements (IS 456 Cl. 26.5.3.2)",
             pass |-> TiesAdequate(reinforcement, tie_dia, tie_spacing)] >>
        overall_pass == AllPass(checks)
    IN  IF IsErr(raised)
        THEN ErrorResult("Column compliance check failed", raised, COLUMN)
        ELSE [member_type |-> COLUMN,
              overall_compliance |-> overall_pass,
              design_summary |->
                  [width |-> width, depth |-> depth, height |-> height,
                   gross_area |-> Round(Ag, 2),
                   steel_percentage |-> Round(steel_percentage, 2),
                   design_axial_load |-> Round(Pu, 2),
                   concrete_grade |-> concrete_grade,
                   steel_grade |-> steel_grade],
              checks |-> checks,
              status |-> IF overall_pass THEN "PASS" ELSE "FAIL"]])])])])])])

\* the required steel of the slab and footing checkers (k <= 0.138 branch)
StripSteel(Mu_nmm, fck, fy, b, d) ==
    LET k == Div(Mu_nmm, Mul(Mul(fck, b), Mul(d, d)))
    IN  IF IsErr(k) THEN k
        ELSE IF Le(k, F(138, -3))
        THEN LET j == Sub(I(1), Div(k, I(3)))
             IN  Div(Mu_nmm, Mul(Mul(Mul(F(87, -2), fy), j), d))
        ELSE Div(Mu_nmm, Mul(Mul(Mul(F(87, -2), fy), F(9, -1)), d))

DistributionCheckAlways(slab_type, entry) == <<entry>>

\* if slab_type == "one_way": checks['distribution_steel'] = {...}
DistributionCheck(slab_type, entry) ==
    IF slab_type = "one_way" THEN <<entry>> ELSE <<>>

\* backend/utils/slab_checker.py
check_slab_compliance(data) ==
    Only([dimensions \in {Index(data, "dimensions")},
          loads \in {Index(data, "loads")},
          materials \in {Index(data, "materials")},
          reinforcement \in {Index(data, "reinforcement")},
          b \in {I(1000)} |->
    Only([length \in {Mul(ToFloat(Get(dimensions, "length", PyNum(Zero))), I(1000))},
          breadth \in {Mul(ToFloat(Get(dimensions, "breadth", PyNum(Zero))), I(1000))},
          thickness \in {ToFloat(Get(dimensions, "depth", PyNum(Zero)))},
          cover \in {ToFloat(Get(reinforcement, "cover", PyNum(I(20))))},
          bar_dia \in {ToFloat(Get(reinforcement, "bar_diameter", PyNum(I(10))))},
          concrete_grade \in {Get(materials, "concrete_grade", PyStr("M20"))},
          steel_grade \in {Get(materials, "steel_grade", PyStr("Fe500"))},
          dead_load \in {ToFloat(Get(loads, "dead_load", PyNum(Zero)))},
          live_load \in {ToFloat(Get(loads, "live_load", PyNum(Zero)))},
          spacing \in {ToFloat(Get(reinforcement, "spacing", PyNum(I(150))))},
          dist_spacing \in {ToFloat(Get(reinforcement, "distribution_spacing",
                                        PyNum(I(200))))} |->
    Only([d \in {Sub(Sub(thickness, cover), Div(bar_dia, I(2)))},
          fck \in {Lookup(CONCRETE_GRADES, concrete_grade, I(20))},
          fy \in {Lookup(STEEL_GRADES, steel_grade, I(500))},
          self_weight \in {Mul(Div(thickness, I(1000)), CONCRETE_DENSITY)},
          aspect_ratio \in {Div(Max2(length, breadth), Min2(length, breadth))},
          shorter_span \in {Div(Min2(length, breadth), I(1000))},
          bar_area \in {BarArea(bar_dia)},
          Ast_min \in {Div(Mul(Mul(F(12, -2), thickness), I(1000)), I(100))},
          max_spacing \in {Min2(Mul(I(3), thickness), I(300))},
          Ast_dist_min \in {Div(Mul(Mul(F(12, -2), thickness), I(1000)), I(100))} |->
    Only([total_dead_load \in {Add(dead_load, self_weight)},
          slab_type \in {IF Ge(aspect_ratio, I(2)) THEN "one_way" ELSE "two_way"},
          Ast_provided \in {Div(Mul(I(1000), bar_area), spacing)},
          min_thickness_required \in {Div(Mul(shorter_span, I(1000)), I(20))},
          tau_c_max \in {Mul(F(25, -2), Sqrt(fck))},
          Ast_dist_provided \in {Div(Mul(I(1000), bar_area), dist_spacing)} |->
    Only([wu \in {Add(Mul(LOAD_FACTOR_DEAD, total_dead_load),
                      Mul(LOAD_FACTOR_LIVE, live_load))},
          pt \in {Div(Mul(I(100), Ast_provided), Mul(b, d))} |->
    Only([Mu \in {IF slab_type = "one_way"
                  THEN Div(Mul(wu, Mul(shorter_span, shorter_span)), I(8))
                  ELSE Mul(Mul(F(87, -3), wu), Mul(shorter_span, shorter_span))},
          Vu \in {Mul(Div(Mul(wu, shorter_span), I(2)), I(1000))} |->
    Only([Mu_nmm \in {Div(Mul(Mu, F(1, 6)), I(1000))},
          tau_v \in {Div(Vu, Mul(b, d))} |->
    Only([Ast_required \in {StripSteel(Mu_nmm, fck, fy, b, d)} |->
    Only([raised \in {FirstErr(<<dimensions, loads, materials, reinforcement,
                                 length, breadth, thickness, cover, bar_dia, d,
                                 concrete_grade, steel_grade, fck, fy,
                                 dead_load, live_load, self_weight, total_dead_load,
                                 wu, aspect_ratio, shorter_span, Mu, Mu_nmm,
                                 Ast_required, spacing, bar_area, Ast_provided,
                                 min_thickness_required, Ast_min, max_spacing,
                                 Vu, tau_v, pt, tau_c_max>>
                               \o (IF slab_type = "one_way"
                                   THEN <<Ast_dist_min, dist_spacing,
                                          Ast_dist_provided>>
                                   ELSE <<>>))} |->
    LET checks == <<
            [name |-> "minimum_thickness",
             minimum_required |-> Round(min_thickness_required, 2),
             provided_thickness |-> thickness,
             pass |-> Ge(thickness, min_thickness_required),
             description |-> "Minimum thickness for deflection control (IS 456 Cl. 23.2.1)"],
            [name |-> "flexural_strength",
             required_steel |-> Round(Ast_required, 2),
             provided_steel |-> Round(Ast_provided, 2),
             pass |-> Ge(Ast_provided, Ast_required),
             description |-> "Flexural reinforcement adequacy"],
            [name |-> "minimum_steel",
             minimum_required |-> Round(Ast_min, 2),
             provided_steel |-> Round(Ast_provided, 2),
             pass |-> Ge(Ast_provided, Ast_min),
             description |-> "Minimum reinforcement (IS 456 Cl. 26.5.2.1)"],
            [name |-> "maximum_spacing",
             maximum_allowed |-> max_spacing,
             provided_spacing |-> spacing,
             pass |-> Le(spacing, max_spacing),
             description |-> "Maximum spacing of reinforcement (IS 456 Cl. 26.3.3)"],
            [name |-> "shear_strength",
             design_shear_stress |-> Round(tau_v, 3),
             maximum_allowable |-> Round(tau_c_max, 3),
             pass |-> Le(tau_v, tau_c_max),
             description |-> "Shear strength (IS 456 Cl. 40.2.1)"] >>
            \o DistributionCheck(slab_type,
                   [name |-> "distribution_steel",
                    minimum_required |-> Round(Ast_dist_min, 2),
                    provided_steel |-> Round(Ast_dist_provided, 2),
                    pass |-> Ge(Ast_dist_provided, Ast_dist_min),
                    description |-> "Distribution reinforcement (IS 456 Cl. 26.5.2.1)"])
        overall_pass == AllPass(checks)
    IN  IF IsErr(raised)
        THEN ErrorResult("Slab compliance check failed", raised, SLAB)
        ELSE [member_type |-> SLAB,
              overall_compliance |-> overall_pass,
              design_summary |->
                  [length |-> length, breadth |-> breadth,
                   thickness |-> thickness,
                   effective_depth |-> Round(d, 2),
                   slab_type |-> slab_type,
                   aspect_ratio |-> Round(aspect_ratio, 2),
                   design_moment |-> Round(Mu, 2),
                   factored_load |-> Round(wu, 2),
                   concrete_grade |-> concrete_grade,
                   steel_grade |-> steel_grade],
              checks |-> checks,
              status |-> IF overall_pass THEN "PASS" ELSE "FAIL"]])])])])])])])])])

\* backend/utils/footing_checker.py
check_footing_compliance(data) ==
    Only([dimensions \in {Index(data, "dimensions")},
          loads \in {Index(data, "loads")},
          materials \in {Index(data, "materials")},
          reinforcement \in {Index(data, "reinforcement")} |->
    Only([length \in {Mul(ToFloat(Get(dimensions, "length", PyNum(Zero))), I(1000))},
          breadth \in {Mul(ToFloat(Get(dimensions, "breadth", PyNum(Zero))), I(1000))},
          thickness \in {ToFloat(Get(dimensions, "depth", PyNum(Zero)))},
          cover \in {ToFloat(Get(reinforcement, "cover", PyNum(I(50))))},
          column_size \in {ToFloat(Get(dimensions, "column_size", PyNum(I(300))))},
          bar_dia \in {ToFloat(Get(reinforcement, "bar_diameter", PyNum(I(16))))},
          concrete_grade \in {Get(materials, "concrete_grade", PyStr("M20"))},
          steel_grade \in {Get(materials, "steel_grade", PyStr("Fe500"))},
          axial_load \in {ToFloat(Get(loads, "axial_load", PyNum(Zero)))},
          moment \in {ToFloat(Get(loads, "moment", PyNum(Zero)))},
          sbc \in {ToFloat(Get(loads, "safe_bearing_capacity", PyNum(I(200))))},
          spacing \in {ToFloat(Get(reinforcement, "spacing", PyNum(I(150))))} |->
    Only([d \in {Sub(Sub(thickness, cover), Div(bar_dia, I(2)))},
          fck \in {Lookup(CONCRETE_GRADES, concrete_grade, I(20))},
          fy \in {Lookup(STEEL_GRADES, steel_grade, I(500))},
          footing_area \in {Div(Mul(length, breadth), F(1, 6))},
          cantilever_length \in {
              Div(Div(Sub(Max2(length, breadth), column_size), I(2)), I(1000))},
          b \in {Min2(length, breadth)},
          bar_area \in {BarArea(bar_dia)},
          max_spacing \in {Min2(Mul(I(3), thickness), I(450))} |->
    Only([self_weight \in {Mul(Div(Mul(footing_area, thickness), I(1000)),
                               CONCRETE_DENSITY)},
          cl2 \in {Mul(cantilever_length, cantilever_length)},
          num_bars \in {Add(Trunc(Div(b, spacing)), I(1))},
          min_thickness \in {Max2(I(150), Div(Mul(cantilever_length, I(1000)), I(4)))},
          Ast_min \in {Div(Mul(Mul(F(12, -2), thickness), b), I(100))},
          shear_span \in {Sub(cantilever_length, Div(d, I(1000)))},
          tau_c \in {Mul(F(36, -2), Sqrt(fck))},
          critical_perimeter \in {Mul(I(4), Add(column_size, d))},
          punching_area \in {Mul(Add(column_size, d), Add(column_size, d))},
          tau_c_punch \in {Mul(F(25, -2), Sqrt(fck))} |->
    Only([total_load \in {Add(axial_load, self_weight)},
          Ast_provided \in {Mul(num_bars, bar_area)},
          critical \in {Gt(shear_span, Zero)} |->
    Only([bearing_pressure \in {Div(total_load, footing_area)},
          pt \in {Div(Mul(I(100), Ast_provided), Mul(b, d))} |->
    Only([net_pressure \in {Sub(bearing_pressure, Div(self_weight, footing_area))} |->
    Only([moment_x \in {IF Ge(length, breadth)
                        THEN Div(Mul(Div(Mul(net_pressure, breadth), I(1000)), cl2), I(2))
                        ELSE Div(Mul(Div(Mul(net_pressure, length), I(1000)), cl2), I(2))},
          moment_y \in {IF Ge(length, breadth)
                        THEN Div(Mul(Div(Mul(net_pressure, length), I(1000)), cl2), I(2))
                        ELSE Div(Mul(Div(Mul(net_pressure, breadth), I(1000)), cl2), I(2))},
          Vu \in {Mul(Mul(Div(Mul(net_pressure, Min2(length, breadth)), I(1000)),
                          shear_span), I(1000))},
          punching_force \in {Sub(Mul(axial_load, I(1000)),
                                  Mul(Div(Mul(net_pressure, punching_area), F(1, 6)),
                                      I(1000)))} |->
    Only([critical_moment \in {Max2(moment_x, moment_y)},
          tau_v \in {Div(Vu, Mul(b, d))},
          tau_v_punch \in {Div(punching_force, Mul(critical_perimeter, d))} |->
    Only([Mu_nmm \in {Div(Mul(critical_moment, F(1, 6)), Min2(length, breadth))} |->
    Only([Ast_required \in {StripSteel(Mu_nmm, fck, fy, b, d)} |->
    Only([raised \in {FirstErr(<<dimensions, loads, materials, reinforcement,
                                 length, breadth, thickness, cover, column_size,
                                 bar_dia, d, concrete_grade, steel_grade, fck, fy,
                                 axial_load, moment, sbc, footing_area, self_weight,
                                 total_load, bearing_pressure, net_pressure,
                                 cantilever_length, moment_x, moment_y,
                                 critical_moment, Mu_nmm, b, Ast_required,
                                 spacing, bar_area, num_bars, Ast_provided,
                                 min_thickness, Ast_min, max_spacing, shear_span>>
                               \o (IF critical THEN <<Vu, tau_v, pt, tau_c>> ELSE <<>>)
                               \o <<critical_perimeter, punching_area,
                                    punching_force, tau_v_punch, tau_c_punch>>)} |->
    LET checks == <<
            [name |-> "bearing_pressure",
             bearing_pressure |-> Round(bearing_pressure, 2),
             safe_bearing_capacity |-> sbc,
             pass |-> Le(bearing_pressure, sbc),
             description |-> "Soil bearing pressure check"],
            [name |-> "minimum_thickness",
             minimum_required |-> Round(min_thickness, 2),
             provided_thickness |-> thickness,
             pass |-> Ge(thickness, min_thickness),
             description |-> "Minimum thickness requirement"],
            [name |-> "flexural_strength",
             required_steel |-> Round(Ast_required, 2),
             provided_steel |-> Round(Ast_provided, 2),
             pass |-> Ge(Ast_provided, Ast_required),
             description |-> "Flexural reinforcement adequacy"],
            [name |-> "minimum_steel",
             minimum_required |-> Round(Ast_min, 2),
             provided_steel |-> Round(Ast_provided, 2),
             pass |-> Ge(Ast_provided, Ast_min),
             description |-> "Minimum reinforcement (IS 456 Cl. 26.5.2.1)"],
            [name |-> "maximum_spacing",
             maximum_allowed |-> max_spacing,
             provided_spacing |-> spacing,
             pass |-> Le(spacing, max_spacing),
             description |-> "Maximum spacing of reinforcement"],
            IF critical
            THEN [name |-> "one_way_shear",
                  design_shear_stress |-> Round(tau_v, 3),
                  allowable_shear_stress |-> Round(tau_c, 3),
                  pass |-> Le(tau_v, tau_c),
                  description |-> "One-way shear strength (IS 456 Cl. 40)"]
            ELSE [name |-> "one_way_shear",
                  design_shear_stress |-> Zero,
                  allowable_shear_stress |-> Zero,
                  pass |-> TRUE,
                  description |-> "One-way shear - Not critical"],
            [name |-> "punching_shear",
             punching_shear_stress |-> Round(tau_v_punch, 3),
             allowable_punching_stress |-> Round(tau_c_punch, 3),
             pass |-> Le(tau_v_punch, tau_c_punch),
             description |-> "Two-way shear (punching) strength (IS 456 Cl. 31.6)"] >>
        overall_pass == AllPass(checks)
    IN  IF IsErr(raised)
        THEN ErrorResult("Footing compliance check failed", raised, FOOTING)
        ELSE [member_type |-> FOOTING,
              overall_compliance |-> overall_pass,
              design_summary |->
                  [length |-> length, breadth |-> breadth,
                   thickness |-> thickness,
                   effective_depth |-> Round(d, 2),
                   footing_area |-> Round(footing_area, 2),
                   bearing_pressure |-> Round(bearing_pressure, 2),
                   critical_moment |-> Round(critical_moment, 2),
                   concrete_grade |-> concrete_grade,
                   steel_grade |-> steel_grade],
              checks |-> checks,
              status |-> IF overall_pass THEN "PASS" ELSE "FAIL"]])])])])])])])])])])])])

----------------------------------------------------------------------------
(* backend/utils/load_calculator.py                                        *)

MATERIAL_DENSITIES ==
    [concrete |-> I(25), brick_masonry |-> I(19), stone_masonry |-> I(24),
     steel |-> F(785, -1), timber |-> I(6), plaster |-> I(20),
     flooring |-> I(23), waterproofing |-> F(15, -1)]

LIVE_LOADS ==
    [residential |-> I(2), office |-> I(3), retail |-> I(4),
     industrial |-> I(5), warehouse |-> F(75, -1), parking |-> F(25, -1),
     corridor |-> I(3), stairs |-> I(3), terrace |-> F(15, -1),
     roof |-> F(75, -2)]

WIND_SPEEDS ==
    [zone_1 |-> I(39), zone_2 |-> I(44), zone_3 |-> I(47), zone_4 |-> I(50),
     zone_5 |-> I(55), zone_6 |-> I(60)]

\* The number a dict value enters un-coerced arithmetic as: a str operand
\* of * or / with a float raises TypeError.
NumOf(x) ==
    IF IsErr(x) THEN x
    ELSE CASE x.t = "num" -> x.v
           [] x.t = "bool" -> IF x.b THEN I(1) ELSE Zero
           [] OTHER -> Raise("TypeError")

\* x == n for a dict value x and an int literal n
EqualsInt(x, n) ==
    /\ ~IsErr(x)
    /\ \/ x.t = "num" /\ x.v = I(n)
       \/ x.t = "bool" /\ x.b /\ n = 1

\* x in list of str literals
InStrs(x, strs) == ~IsErr(x) /\ x.t = "str" /\ x.s \in strs

\* The dict display {keys[1]: vals[1], ...}: it raises what the first
\* faulty value raises.
Display(keys, vals) ==
    IF IsErr(FirstErr(vals)) THEN FirstErr(vals)
    ELSE PyDict([k \in {keys[i] : i \in DOMAIN keys} |->
                    vals[CHOOSE i \in DOMAIN keys : keys[i] = k]])

\* LoadCalculator.calculate_self_weight(member_type, dimensions), material
\* 'concrete'; member_type is one of the four str literals the callers pass
calculate_self_weight(member_type, dimensions) ==
    LET length  == Div(ToFloat(Get(dimensions, "length", PyNum(Zero))), I(1000))
        breadth == Div(ToFloat(Get(dimensions, "breadth", PyNum(Zero))), I(1000))
        depth   == Div(ToFloat(Get(dimensions, "depth", PyNum(Zero))), I(1000))
        density == Lookup(MATERIAL_DENSITIES, PyStr("concrete"), I(25))
    IN  CASE member_type = "beam" ->
               LET volume      == Mul(Mul(breadth, depth), length)
                   self_weight == Mul(volume, density)
                   udl         == Div(self_weight, length)
               IN  Display(<<"volume", "total_self_weight", "udl_self_weight", "unit">>,
                           <<PyNum(volume),
                             PyNum(self_weight), PyNum(udl), PyStr("kN/m")>>)
          [] member_type = "column" ->
               LET volume      == Mul(Mul(breadth, depth), length)
                   self_weight == Mul(volume, density)
               IN  Display(<<"volume", "total_self_weight", "unit">>,
                           <<PyNum(volume),
                             PyNum(self_weight), PyStr("kN")>>)
          [] member_type = "slab" ->
               LET area        == Mul(length, breadth)
                   volume      == Mul(area, depth)
                   self_weight == Mul(volume, density)
                   per_area    == Mul(density, depth)
               IN  Display(<<"area", "volume", "total_self_weight",
                             "self_weight_per_area", "unit">>,
                           <<PyNum(area), PyNum(volume),
                             PyNum(self_weight), PyNum(per_area), PyStr("kN/m2")>>)
          [] member_type = "footing" ->
               LET volume      == Mul(Mul(length, breadth), depth)
                   self_weight == Mul(volume, density)
               IN  Display(<<"volume", "total_self_weight", "unit">>,
                           <<PyNum(volume),
                             PyNum(self_weight), PyStr("kN")>>)
          [] OTHER -> PyNone

\* LoadCalculator.calculate_superimposed_dead_load(member_type, building_use)
\* with include_partition and include_finishes left at True
calculate_superimposed_dead_load(member_type, building_use) ==
    IF member_type \in {"beam", "slab"}
    THEN LET floor_finish   == I(1)
             ceiling_finish == F(5, -1)
             waterproofing  == F(3, -1)
             partition_walls ==
                 IF InStrs(building_use, {"residential", "office"}) THEN I(1)
                 ELSE IF InStrs(building_use, {"retail", "industrial"}) THEN F(15, -1)
                 ELSE I(1)
             mep_services == F(5, -1)
             total_sidl ==
                 Add(Add(Add(Add(Add(Zero, floor_finish), ceiling_finish),
                             waterproofing), partition_walls), mep_services)
         IN  Display(<<"floor_finish", "ceiling_finish", "waterproofing",
                       "partition_walls", "mep_services", "total_sidl", "unit">>,
                     <<PyNum(floor_finish), PyNum(ceiling_finish),
                       PyNum(waterproofing), PyNum(partition_walls),
                       PyNum(mep_services), PyNum(total_sidl), PyStr("kN/m2")>>)
    ELSE EmptyDict

\* LoadCalculator.calculate_live_load(member_type, building_use)
calculate_live_load(member_type, building_use) ==
    LET base_live_load == Lookup(LIVE_LOADS, building_use, I(2))
    IN  CASE member_type = "beam" ->
               Display(<<"live_load", "unit", "note">>,
                       <<PyNum(base_live_load), PyStr("kN/m2"),
                         PyStr("Apply to tributary area")>>)
          [] member_type = "column" ->
               Display(<<"live_load_per_floor", "unit", "note">>,
                       <<PyNum(base_live_load), PyStr("kN/m2"),
                         PyStr("Multiply by tributary area and number of floors")>>)
          [] member_type = "slab" ->
               Display(<<"live_load", "unit">>,
                       <<PyNum(base_live_load), PyStr("kN/m2")>>)
          [] member_type = "footing" ->
               Display(<<"live_load", "unit", "note">>,
                       <<PyNum(base_live_load), PyStr("kN/m2"),
                         PyStr("From superstructure")>>)
          [] OTHER -> IF IsErr(base_live_load) THEN base_live_load ELSE PyNone

\* k2 of calculate_wind_load: base * (height/10)**0.15 above 10 m
TerrainFactor(base, height) ==
    IF IsErr(height) THEN height
    ELSE IF Le(height, I(10)) THEN base
    ELSE Mul(base, Pow015(Div(height, I(10))))

\* LoadCalculator.calculate_wind_load(height, wind_zone, terrain_category,
\* importance_factor)
calculate_wind_load(height, wind_zone, terrain_category, importance_factor) ==
    Only([vb \in {Lookup(WIND_SPEEDS, wind_zone, I(44))},
          k2 \in {IF IsErr(terrain_category) THEN terrain_category
                  ELSE IF EqualsInt(terrain_category, 1)
                       THEN TerrainFactor(F(105, -2), height)
                  ELSE IF EqualsInt(terrain_category, 2)
                       THEN TerrainFactor(I(1), height)
                  ELSE IF EqualsInt(terrain_category, 3)
                       THEN TerrainFactor(F(91, -2), height)
                  ELSE TerrainFactor(F(80, -2), height)},
          k3 \in {I(1)} |->
    Only([vz \in {Mul(Mul(vb, k2), k3)} |->
    Only([pz \in {Div(Mul(F(6, -1), Mul(vz, vz)), I(1000))} |->
    Only([design_wind_pressure \in {Mul(pz, importance_factor)} |->
    Display(<<"basic_wind_speed", "terrain_height_factor",
                  "topography_factor", "design_wind_speed", "wind_pressure",
                  "unit", "height", "zone">>,
                <<PyNum(vb), PyNum(k2), PyNum(k3), PyNum(vz),
                  PyNum(design_wind_pressure), PyStr("kN/m2"),
                  PyNum(height), wind_zone>>)])])])])

\* LoadCalculator.calculate_column_axial_load(column_data)
calculate_column_axial_load(column_data) ==
    Only([dimensions \in {Get(column_data, "dimensions", EmptyDict)},
          building_data \in {Get(column_data, "building_data", EmptyDict)},
          wind_data \in {Get(column_data, "wind_data", EmptyDict)} |->
    Only([self_weight \in {calculate_self_weight("column", dimensions)},
          num_floors \in {Get(building_data, "num_floors", PyNum(I(1)))},
          floor_area_per_column \in {Get(building_data, "tributary_area", PyNum(I(20)))},
          building_use \in {Get(building_data, "building_use", PyStr("residential"))},
          floor_height \in {Get(building_data, "floor_height", PyNum(I(3)))},
          slab_thickness \in {Get(building_data, "slab_thickness", PyNum(I(150)))},
          total_height \in {Div(ToFloat(Get(dimensions, "length", PyNum(I(3000)))),
                                I(1000))},
          windy \in {~IsErr(wind_data) /\ Truthy(wind_data)},
          wind_area_per_column \in {
              Get(building_data, "wind_area_per_column", PyNum(I(15)))} |->
    Only([slab_self_weight \in {Mul(MATERIAL_DENSITIES["concrete"],
                                    Div(NumOf(slab_thickness), I(1000)))},
          sidl \in {calculate_superimposed_dead_load("slab", building_use)},
          live_load_data \in {calculate_live_load("slab", building_use)},
          own_weight \in {NumOf(Index(self_weight, "total_self_weight"))},
          wind_load_data \in {
              calculate_wind_load(total_height,
                                  Get(wind_data, "wind_zone", PyStr("zone_2")),
                                  Get(wind_data, "terrain_category", PyNum(I(2))),
                                  I(1))} |->
    Only([total_sidl \in {NumOf(Get(sidl, "total_sidl", PyNum(I(2))))},
          live_load_per_floor \in {NumOf(Get(live_load_data, "live_load", PyNum(I(2))))},
          wind_pressure \in {IF windy THEN NumOf(Index(wind_load_data, "wind_pressure"))
                             ELSE Zero} |->
    Only([dead_load_per_floor \in {Mul(Add(slab_self_weight, total_sidl),
                                       NumOf(floor_area_per_column))},
          live_load_per_floor_total \in {Mul(live_load_per_floor,
                                             NumOf(floor_area_per_column))},
          total_wind_load \in {IF windy
                               THEN Mul(wind_pressure, NumOf(wind_area_per_column))
                               ELSE Zero} |->
    Only([total_dead_load \in {Add(own_weight,
                                   Mul(dead_load_per_floor, NumOf(num_floors)))},
          total_live_load \in {Mul(live_load_per_floor_total, NumOf(num_floors))} |->
    Only([combination_1 \in {Mul(F(15, -1), Add(total_dead_load, total_live_load))},
          combination_2 \in {Mul(F(12, -1), Add(Add(total_dead_load, total_live_load),
                                                total_wind_load))},
          combination_3 \in {Mul(F(15, -1),
                                 Add(Add(total_dead_load,
                                         Mul(F(25, -2), total_live_load)),
                                     total_wind_load))},
          raised \in {FirstErr(<<dimensions, building_data, wind_data, self_weight,
                                 slab_self_weight, sidl, total_sidl, live_load_data,
                                 live_load_per_floor, dead_load_per_floor,
                                 live_load_per_floor_total, total_dead_load,
                                 total_live_load, total_height, total_wind_load>>)} |->
    Only([critical_load \in {Max2(Max2(combination_1, combination_2), combination_3)} |->
    IF IsErr(raised) THEN raised
        ELSE Display(<<"column_self_weight", "dead_load_from_floors",
                       "total_dead_load", "total_live_load", "total_wind_load",
                       "load_combination_1", "load_combination_2",
                       "load_combination_3", "critical_axial_load",
                       "wind_pressure", "num_floors", "tributary_area", "unit">>,
                     <<PyNum(own_weight),
                       PyNum(Mul(dead_load_per_floor, NumOf(num_floors))),
                       PyNum(total_dead_load), PyNum(total_live_load),
                       PyNum(total_wind_load), PyNum(combination_1),
                       PyNum(combination_2), PyNum(combination_3),
                       PyNum(critical_load), PyNum(wind_pressure),
                       num_floors, floor_area_per_column, PyStr("kN")>>)])])])])])])])])

\* LoadCalculator.calculate_beam_loads(beam_data)
calculate_beam_loads(beam_data) ==
    Only([dimensions \in {Get(beam_data, "dimensions", EmptyDict)},
          loading_data \in {Get(beam_data, "loading_data", EmptyDict)} |->
    Only([self_weight \in {calculate_self_weight("beam", dimensions)},
          tributary_width \in {Get(loading_data, "tributary_width", PyNum(I(3)))},
          slab_thickness \in {Get(loading_data, "slab_thickness", PyNum(I(150)))},
          building_use \in {Get(loading_data, "building_use", PyStr("residential"))},
          wall_load \in {Get(loading_data, "wall_load", PyNum(Zero))} |->
    Only([beam_udl \in {NumOf(Index(self_weight, "udl_self_weight"))},
          slab_self_weight \in {Mul(MATERIAL_DENSITIES["concrete"],
                                    Div(NumOf(slab_thickness), I(1000)))},
          sidl \in {calculate_superimposed_dead_load("slab", building_use)},
          live_load_data \in {calculate_live_load("slab", building_use)} |->
    Only([total_slab_dead_load \in {
              Mul(Add(slab_self_weight, NumOf(Get(sidl, "total_sidl", PyNum(I(2))))),
                  NumOf(tributary_width))},
          slab_live_load \in {Mul(NumOf(Get(live_load_data, "live_load", PyNum(I(2)))),
                                  NumOf(tributary_width))} |->
    Only([total_dead_load \in {Add(Add(beam_udl, total_slab_dead_load), NumOf(wall_load))},
          total_live_load \in {slab_live_load} |->
    Only([combination_1 \in {Mul(F(15, -1), Add(total_dead_load, total_live_load))} |->
    Display(<<"beam_self_weight", "slab_dead_load", "slab_live_load",
                  "wall_load", "total_dead_load", "total_live_load",
                  "factored_load", "tributary_width", "unit">>,
                <<PyNum(beam_udl), PyNum(total_slab_dead_load),
                  PyNum(slab_live_load), wall_load, PyNum(total_dead_load),
                  PyNum(total_live_load), PyNum(combination_1),
                  tributary_width, PyStr("kN/m")>>)])])])])])])

RECURSIVE SetDefaults(_, _, _)
\* d.setdefault(keys[i], vals[i]) for i = 1, 2, ...
SetDefaults(d, keys, vals) ==
    IF keys = <<>> THEN d
    ELSE SetDefaults(SetDefault(d, Head(keys), Head(vals)), Tail(keys), Tail(vals))

BuildingDefaults ==
    Display(<<"building_use", "num_floors", "floor_height", "slab_thickness",
              "tributary_area", "tributary_width">>,
            <<PyStr("residential"), PyNum(I(1)), PyNum(I(3)), PyNum(I(150)),
              PyNum(I(20)), PyNum(I(3))>>)

WindDefaults ==
    Display(<<"wind_zone", "terrain_category", "importance_factor">>,
            <<PyStr("zone_2"), PyNum(I(2)), PyNum(I(1))>>)

\* The member branch of auto_calculate_loads: the three dicts it assigns to
\* design_data ('loads', 'load_calculations', 'wind_calculations'), or the
\* exception it raises before assigning any of them; [none |-> TRUE] for a
\* member_type without branch.
MemberLoads(member_type, data, building_data, wind_data) ==
    Only([dims \in {Index(data, "dimensions")},
          zone \in {Get(wind_data, "wind_zone", PyStr("zone_2"))},
          terr \in {Get(wind_data, "terrain_category", PyNum(I(2)))} |->
    LET Assigned(loads, calcs, wind) ==
            IF IsErr(FirstErr(<<loads, calcs, wind>>))
            THEN FirstErr(<<loads, calcs, wind>>)
            ELSE [loads |-> loads, load_calculations |-> calcs,
                  wind_calculations |-> wind]
    IN
    CASE member_type = COLUMN ->
        Only([column_data \in {Display(<<"dimensions", "building_data", "wind_data">>,
                                       <<dims, building_data, wind_data>>)},
              total_height \in {Div(ToFloat(Get(dims, "length", PyNum(I(3000)))),
                                    I(1000))} |->
        Only([load_results \in {calculate_column_axial_load(column_data)},
              wind_load_data \in {calculate_wind_load(total_height, zone, terr, I(1))} |->
        Only([wind_moment \in {
                  Div(Mul(NumOf(Index(wind_load_data, "wind_pressure")),
                          Mul(total_height, total_height)), I(6))} |->
        Only([moment \in {IF IsErr(wind_moment) THEN wind_moment
                          ELSE IF Gt(wind_moment, I(50)) THEN Str(wind_moment)
                          ELSE PyNumStr(I(50), FALSE)},
              order \in {FirstErr(<<column_data, load_results, total_height,
                                    wind_load_data, wind_moment>>)} |->
        IF IsErr(order) THEN order
            ELSE Assigned(
                Display(<<"axial_load", "moment">>,
                        <<Str(NumOf(Index(load_results, "critical_axial_load"))),
                          moment>>),
                load_results, wind_load_data)])])])])
      [] member_type = BEAM ->
        Only([beam_data \in {Display(<<"dimensions", "loading_data">>,
                                     <<dims, building_data>>)},
              beam_height \in {Div(ToFloat(Get(dims, "depth", PyNum(I(600)))), I(1000))},
              beam_width \in {Div(ToFloat(Get(dims, "breadth", PyNum(I(300)))), I(1000))} |->
        Only([load_results \in {calculate_beam_loads(beam_data)},
              wind_load_data \in {calculate_wind_load(beam_height, zone, terr, I(1))} |->
        Only([wind_load_on_beam \in {
                  Mul(NumOf(Index(wind_load_data, "wind_pressure")), beam_width)} |->
        Only([order \in {FirstErr(<<beam_data, load_results, beam_height,
                                    wind_load_data, beam_width, wind_load_on_beam>>)} |->
        IF IsErr(order) THEN order
            ELSE Assigned(
                Display(<<"dead_load", "live_load", "wind_load", "factored_load">>,
                        <<Str(NumOf(Index(load_results, "total_dead_load"))),
                          Str(NumOf(Index(load_results, "total_live_load"))),
                          Str(wind_load_on_beam),
                          Str(NumOf(Index(load_results, "factored_load")))>>),
                load_results, wind_load_data)])])])])
      [] member_type = SLAB ->
        Only([use \in {Get(building_data, "building_use", PyStr("residential"))},
              self_weight \in {calculate_self_weight("slab", dims)},
              slab_height \in {Mul(NumOf(Get(building_data, "floor_height", PyNum(I(3)))),
                                   NumOf(Get(building_data, "num_floors", PyNum(I(1)))))} |->
        Only([sidl \in {calculate_superimposed_dead_load("slab", use)},
              live_load \in {calculate_live_load("slab", use)},
              wind_load_data \in {calculate_wind_load(slab_height, zone, terr, I(1))} |->
        Only([wind_uplift \in {Mul(F(-8, -1),
                                   NumOf(Index(wind_load_data, "wind_pressure")))},
              total_dead_load \in {
                  Add(NumOf(Index(self_weight, "self_weight_per_area")),
                      NumOf(Get(sidl, "total_sidl", PyNum(I(2)))))},
              total_live_load \in {NumOf(Get(live_load, "live_load", PyNum(I(2))))} |->
        Only([order \in {FirstErr(<<self_weight, sidl, live_load, slab_height,
                                    wind_load_data, wind_uplift, total_dead_load,
                                    total_live_load>>)} |->
        IF IsErr(order) THEN order
            ELSE Assigned(
                Display(<<"dead_load", "live_load", "wind_load", "total_load">>,
                        <<Str(total_dead_load), Str(total_live_load),
                          Str(wind_uplift),
                          Str(Add(total_dead_load, total_live_load))>>),
                Display(<<"self_weight", "sidl", "live_load">>,
                        <<self_weight, sidl, live_load>>),
                wind_load_data)])])])])
      [] member_type = FOOTING ->
        Only([num_floors \in {Get(building_data, "num_floors", PyNum(I(1)))},
              tributary_area \in {Get(building_data, "tributary_area", PyNum(I(20)))},
              building_use \in {Get(building_data, "building_use", PyStr("residential"))},
              slab_thickness \in {Get(building_data, "slab_thickness", PyNum(I(150)))},
              footing_self_weight \in {calculate_self_weight("footing", dims)} |->
        Only([live_load_data \in {calculate_live_load("slab", building_use)},
              slab_dead_load \in {Mul(MATERIAL_DENSITIES["concrete"],
                                      Div(NumOf(slab_thickness), I(1000)))},
              sidl \in {calculate_superimposed_dead_load("slab", building_use)},
              building_height \in {
                  Mul(NumOf(Get(building_data, "floor_height", PyNum(I(3)))),
                      NumOf(num_floors))},
              own_weight \in {NumOf(Index(footing_self_weight, "total_self_weight"))} |->
        Only([live_load_per_floor \in {
                  NumOf(Get(live_load_data, "live_load", PyNum(I(2))))},
              total_dead_load_per_floor \in {
                  Add(slab_dead_load, NumOf(Get(sidl, "total_sidl", PyNum(I(2)))))},
              wind_load_data \in {calculate_wind_load(building_height, zone, terr, I(1))},
              wind_area \in {Mul(building_height, I(10))} |->
        Only([total_dead_load \in {Mul(Mul(total_dead_load_per_floor,
                                           NumOf(tributary_area)), NumOf(num_floors))},
              total_live_load \in {Mul(Mul(live_load_per_floor,
                                           NumOf(tributary_area)), NumOf(num_floors))},
              wind_force \in {Mul(NumOf(Index(wind_load_data, "wind_pressure")),
                                  wind_area)} |->
        Only([wind_moment \in {Div(Mul(wind_force, building_height), I(2))} |->
        Only([order \in {FirstErr(<<live_load_data, live_load_per_floor,
                                    slab_dead_load, sidl, total_dead_load_per_floor,
                                    total_dead_load, total_live_load, building_height,
                                    wind_load_data, wind_area, wind_force, wind_moment,
                                    footing_self_weight>>)} |->
        IF IsErr(order) THEN order
            ELSE Assigned(
                Display(<<"vertical_load", "dead_load", "live_load", "wind_moment">>,
                        <<Str(Add(Add(total_dead_load, total_live_load), own_weight)),
                          Str(total_dead_load), Str(total_live_load),
                          Str(wind_moment)>>),
                Display(<<"dead_load_per_floor", "live_load_per_floor",
                          "total_dead_load", "total_live_load",
                          "footing_self_weight", "num_floors", "tributary_area">>,
                        <<PyNum(total_dead_load_per_floor),
                          PyNum(live_load_per_floor), PyNum(total_dead_load),
                          PyNum(total_live_load), PyNum(own_weight),
                          num_floors, tributary_area>>),
                wind_load_data)])])])])])])
      [] OTHER -> [none |-> TRUE]])

\* auto_calculate_loads(member_type, design_data).  The function changes the
\* caller's dict in place and returns it; the model returns the dict as it
\* is left (data), what was raised (raised, [ok |-> TRUE] when nothing) and
\* whether new 'loads' and 'load_calculations' dicts were assigned (wrote).
auto_calculate_loads(member_type, data) ==
    LET building_0 == Get(data, "building_parameters", EmptyDict)
        fresh_b    == ~Truthy(building_0)
        building_1 == IF fresh_b THEN BuildingDefaults ELSE building_0
        data_1     == IF fresh_b
                      THEN SetItem(data, "building_parameters", building_1)
                      ELSE data
    IN  IF ~IsDict(building_1)
        THEN [data |-> data_1, raised |-> Raise("AttributeError"), wrote |-> FALSE]
        ELSE
    Only([building_data \in
             {SetDefaults(building_1,
                 <<"building_use", "num_floors", "floor_height", "slab_thickness",
                   "tributary_area", "tributary_width", "wall_load">>,
                 <<PyStr("residential"), PyNum(I(1)), PyNum(I(3)), PyNum(I(150)),
                   PyNum(I(20)), PyNum(I(3)), PyNum(Zero)>>)} |->
    Only([data_2 \in {SetItem(data_1, "building_parameters", building_data)} |->
    LET wind_0  == Get(data_2, "wind_parameters", EmptyDict)
        fresh_w == ~Truthy(wind_0)
        wind_1  == IF fresh_w THEN WindDefaults ELSE wind_0
        data_3  == IF fresh_w THEN SetItem(data_2, "wind_parameters", wind_1)
                   ELSE data_2
    IN  IF ~IsDict(wind_1)
        THEN [data |-> data_3, raised |-> Raise("AttributeError"), wrote |-> FALSE]
        ELSE
    Only([wind_data \in
             {SetDefaults(wind_1,
                 <<"wind_zone", "terrain_category", "importance_factor">>,
                 <<PyStr("zone_2"), PyNum(I(2)), PyNum(I(1))>>)} |->
    Only([data_4 \in {SetItem(data_3, "wind_parameters", wind_data)} |->
    Only([member \in {MemberLoads(member_type, data_4, building_data, wind_data)} |->
        IF IsErr(member)
        THEN [data |-> data_4, raised |-> member, wrote |-> FALSE]
        ELSE IF "none" \in DOMAIN member
        THEN [data |-> data_4, raised |-> [ok |-> TRUE], wrote |-> FALSE]
        ELSE [data |-> SetItem(SetItem(SetItem(data_4,
                           "loads", member.loads),
                           "load_calculations", member.load_calculations),
                           "wind_calculations", member.wind_calculations),
              raised |-> [ok |-> TRUE], wrote |-> TRUE]])])])])])

----------------------------------------------------------------------------
(* backend/api/check_code_new.py                                           *)

UpperToLower ==
    [A |-> "a", B |-> "b", C |-> "c", D |-> "d", E |-> "e", F |-> "f",
     G |-> "g", H |-> "h", I |-> "i", J |-> "j", K |-> "k", L |-> "l",
     M |-> "m", N |-> "n", O |-> "o", P |-> "p", Q |-> "q", R |-> "r",
     S |-> "s", T |-> "t", U |-> "u", V |-> "v", W |-> "w", X |-> "x",
     Y |-> "y", Z |-> "z"]

LowerSkipped(x) ==
    IF IsErr(x) THEN x
    ELSE IF x.t # "chars" THEN Raise("AttributeError") ELSE x

\* str.lower()
Lower(x) ==
    IF IsErr(x) THEN x
    ELSE IF x.t # "chars" THEN Raise("AttributeError")
    ELSE PyChars([i \in DOMAIN x.c |->
                     IF x.c[i] \in DOMAIN UpperToLower
                     THEN UpperToLower[x.c[i]] ELSE x.c[i]])

SupportedTypes == <<BEAM, COLUMN, SLAB, FOOTING>>

\* the recommendations of lines 58-70
Recommendations(member_type) ==
    CASE member_type = BEAM ->
           <<"Consider increasing beam depth if moment capacity is insufficient",
             "Check reinforcement spacing for shear requirements">>
      [] member_type = COLUMN ->
           <<"Increase column dimensions if axial capacity is exceeded",
             "Check minimum reinforcement percentage">>
      [] member_type = SLAB ->
           <<"Consider increasing slab thickness if deflection is excessive",
             "Check reinforcement requirements for flexure">>
      [] member_type = FOOTING ->
           <<"Increase footing dimensions if bearing pressure is excessive",
             "Check reinforcement for punching shear">>
      [] OTHER -> <<>>

AutoCalcAlways(data) == TRUE

\* if auto_calc or 'loads' not in design_data
AutoCalcRequested(data) ==
    \/ Truthy(Get(data, "auto_calculate_loads", PyBool(TRUE)))
    \/ ~HasKey(data, "loads")

\* the member checker check_compliance dispatches to
Dispatch(member_type, data) ==
    CASE member_type = BEAM -> check_beam_compliance(data)
      [] member_type = COLUMN -> check_column_compliance(data)
      [] member_type = SLAB -> check_slab_compliance(data)
      [] member_type = FOOTING -> check_footing_compliance(data)

WithRecommendationsAlways(result, member_type) ==
    IF "overall_compliance" \in DOMAIN result
    THEN ("recommendations" :> Recommendations(member_type)) @@ result
    ELSE result

\* if not result.get('overall_compliance', True): result['recommendations'] = ...
WithRecommendations(result, member_type) ==
    IF "overall_compliance" \in DOMAIN result /\ ~result.overall_compliance
    THEN ("recommendations" :> Recommendations(member_type)) @@ result
    ELSE result

\* if 'load_calculations' in design_data: the two result fields of lines 76-77
WithLoadCalculations(result, data) ==
    IF HasKey(data, "load_calculations")
    THEN IF HasKey(data, "loads")
         THEN ("load_calculations" :> data.d["load_calculations"])
              @@ ("calculated_loads" :> data.d["loads"]) @@ result
         ELSE Raise("KeyError")
    ELSE result

\* check_compliance(design_data).  The model returns the outcome of the
\* call: escaped (an exception left the function) with exc its kind, or
\* result (the returned dict); data is the caller's dict as the call leaves
\* it, wrote tells that auto_calculate_loads assigned new 'loads' and
\* 'load_calculations' dicts, invoked is the member checker that was called
\* (None when none was).
check_compliance(data) ==
    Only([member_type \in {Lower(Get(data, "member_type", PyChars(<<>>)))} |->
    IF IsErr(member_type)
    \* the handler of line 81 reads member_type, which was never bound
    THEN [escaped |-> TRUE, exc |-> "UnboundLocalError", data |-> data,
          wrote |-> FALSE, invoked |-> PyNone]
    ELSE
    Only([auto \in {IF AutoCalcRequested(data)
                    THEN auto_calculate_loads(member_type, data)
                    ELSE [data |-> data, raised |-> [ok |-> TRUE],
                          wrote |-> FALSE]} |->
    LET Handler(e) == [error |-> [msg |-> "Compliance check failed",
                                  detail |-> PyStr(e.err)],
                       member_type |-> member_type]
    IN  IF IsErr(auto.raised)
        THEN [escaped |-> FALSE, result |-> Handler(auto.raised),
              data |-> auto.data, wrote |-> FALSE, invoked |-> PyNone]
        ELSE IF member_type \notin {BEAM, COLUMN, SLAB, FOOTING}
        THEN [escaped |-> FALSE,
              result |-> [error |-> [msg |-> "Unsupported member type",
                                     detail |-> member_type],
                          supported_types |-> SupportedTypes],
              data |-> auto.data, wrote |-> auto.wrote, invoked |-> PyNone]
        ELSE
    Only([checked \in {Dispatch(member_type, auto.data)} |->
    Only([advised \in {WithRecommendations(checked, member_type)} |->
    Only([merged \in {WithLoadCalculations(advised, auto.data)} |->
        [escaped |-> FALSE,
         result |-> IF IsErr(merged) THEN Handler(merged) ELSE merged,
         data |-> auto.data, wrote |-> auto.wrote,
         invoked |-> member_type]])])])])])

----------------------------------------------------------------------------
(* The callers: the design records they build and the calls they make      *)

\* calls of check_compliance and of the member checkers in one run
MaxCalls == 2

\* edits of the design record between the calls of one run
MaxEdits == 1

\* the most bars an edit of the reinforcement asks for
MaxBars == 6

Absent == [absent |-> TRUE]

\* the item k: v of a dict display, or nothing when the caller leaves k out
Optional(k, v) == IF v = Absent THEN <<>> ELSE (k :> v)

Dimensions(l, b, d) ==
    PyDict([length |-> PyNum(l), breadth |-> PyNum(b), depth |-> PyNum(d)])

\* length in m; breadth and depth in mm for a beam or a column, breadth in m
\* for a slab or a footing.  The last of each is a degenerate section.
DimensionsOf(member_type) ==
    CASE member_type = BEAM ->
           {Dimensions(I(6), I(300), I(600)), Dimensions(I(6), I(200), I(300)),
            Dimensions(I(6), Zero, I(600))}
      [] member_type = COLUMN ->
           {Dimensions(I(3), I(300), I(300)), Dimensions(I(3), I(150), I(150)),
            Dimensions(I(3), Zero, I(300))}
      [] member_type = SLAB ->
           {Dimensions(I(4), I(3), I(150)), Dimensions(I(6), I(3), I(150)),
            Dimensions(I(4), Zero, I(150))}
      [] member_type = FOOTING ->
           {Dimensions(I(2), I(2), I(500)), Dimensions(I(1), I(1), I(300)),
            Dimensions(I(2), Zero, I(500))}

Materials ==
    PyDict([concrete_grade |-> PyStr("M20"), steel_grade |-> PyStr("Fe415")])

Reinforcement(num_bars, bar_diameter, spacing) ==
    PyDict([num_bars |-> PyNum(I(num_bars)),
            bar_diameter |-> PyNum(I(bar_diameter)),
            cover |-> PyNum(I(25)), spacing |-> PyNum(I(spacing))])

Reinforcements == {Reinforcement(2, 8, 300), Reinforcement(4, 16, 150)}

\* the loads a caller enters by hand
CallerLoads ==
    PyDict([dead_load |-> PyNum(F(25, -1)), live_load |-> PyNum(I(3)),
            axial_load |-> PyNum(I(500)), moment |-> PyNum(I(50))])

LoadsOptions == {Absent, CallerLoads}

\* auto_calculate_loads: left out, True or False
FlagOptions == {Absent, PyBool(TRUE), PyBool(FALSE)}

Record(member_type, dimensions, reinforcement, loads, flag) ==
    PyDict(Optional("loads", loads) @@ Optional("auto_calculate_loads", flag)
           @@ Optional("member_type", member_type)
           @@ Optional("dimensions", dimensions)
           @@ [materials |-> Materials, reinforcement |-> reinforcement])

\* member_type values that name no checker as they are written
OddTypes ==
    {PyChars(<<"B", "E", "A", "M">>), PyChars(<<"C", "o", "l", "u", "m", "n">>),
     PyChars(<<"w", "a", "l", "l">>), PyNum(I(5)), Absent}

DesignRecords ==
    UNION {{Record(mt, dm, rf, ld, fl) :
                dm \in DimensionsOf(mt), rf \in Reinforcements,
                ld \in LoadsOptions, fl \in FlagOptions} :
           mt \in {BEAM, COLUMN, SLAB, FOOTING}}
    \cup
    {Record(mt, Dimensions(I(3), I(300), I(300)), Reinforcement(4, 16, 150),
            ld, fl) :
        mt \in OddTypes, ld \in LoadsOptions, fl \in FlagOptions}
    \cup
    {Record(mt, Absent, Reinforcement(4, 16, 150), ld, fl) :
        mt \in {BEAM, COLUMN, SLAB, FOOTING},
        ld \in LoadsOptions, fl \in FlagOptions}
    \cup {PyNone}

----------------------------------------------------------------------------
(* The run: one design record, the dict objects it and the results share,  *)
(* and the calls made so far                                                *)

\* design_data['loads'] and design_data['load_calculations'] are dict
\* objects that a result shares with the record: the record holds their
\* addresses and heap their contents.
View(rec, h) ==
    IF ~IsDict(rec) THEN rec
    ELSE PyDict([k \in DOMAIN rec.d |->
                    IF rec.d[k].t = "ref" THEN h[rec.d[k].a] ELSE rec.d[k]])

\* a result as it reads now: the shared dicts looked up
Deref(res, h) ==
    [k \in DOMAIN res |->
        IF k \in {"load_calculations", "calculated_loads"}
        THEN h[res[k].a] ELSE res[k]]

\* design_data[k].update({...}): the dict object is changed in place
UpdateInPlace(mem, k, v) ==
    IF k \in DOMAIN mem.data.d /\ mem.data.d[k].t = "ref"
    THEN [heap |-> [mem.heap EXCEPT ![mem.data.d[k].a] = v], data |-> mem.data]
    ELSE [heap |-> Append(mem.heap, v),
          data |-> SetItem(mem.data, k, PyRef(Len(mem.heap) + 1))]

\* design_data[k] = {...}: the name is bound to a new dict object
Assign(mem, k, v) ==
    [heap |-> Append(mem.heap, v),
     data |-> SetItem(mem.data, k, PyRef(Len(mem.heap) + 1))]

\* The record after a call that computed the dict new from the dict old:
\* items the call left alone keep their objects.
Rebind(old, new) ==
    IF ~IsDict(new) THEN new
    ELSE PyDict([k \in DOMAIN new.d |->
                    IF k \in DOMAIN old.d /\ old.d[k].t = "ref"
                    THEN old.d[k] ELSE new.d[k]])

\* result['load_calculations'] = design_data['load_calculations'] and
\* result['calculated_loads'] = design_data['loads']: the same objects
Share(res, rec) ==
    [k \in DOMAIN res |->
        IF k = "load_calculations" THEN rec.d["load_calculations"]
        ELSE IF k = "calculated_loads" THEN rec.d["loads"]
        ELSE res[k]]

Init ==
    \E rec \in DesignRecords :
        /\ design_data = IF IsDict(rec) /\ HasKey(rec, "loads")
                         THEN SetItem(rec, "loads", PyRef(1)) ELSE rec
        /\ heap = IF IsDict(rec) /\ HasKey(rec, "loads")
                  THEN <<rec.d["loads"]>> ELSE <<>>
        /\ results = <<>>
        /\ edits = 0

\* the record, the heap and the result object after the call returned out
Returned(out) ==
    LET kept == [heap |-> heap, data |-> Rebind(design_data, out.data)]
        mem  == IF out.wrote
                THEN Assign(Assign(kept, "loads", out.data.d["loads"]),
                            "load_calculations",
                            out.data.d["load_calculations"])
                ELSE kept
    IN  [heap |-> mem.heap, data |-> mem.data,
         ret |-> IF out.escaped THEN [exception |-> out.exc]
                 ELSE Share(out.result, mem.data)]

\* result = check_compliance(design_data)
CheckCompliance ==
    /\ Len(results) < MaxCalls
    /\ \E arg \in {View(design_data, heap)} :
       \E out \in {check_compliance(arg)} :
       \E mem \in {Returned(out)} :
           /\ design_data' = mem.data
           /\ heap' = mem.heap
           /\ results' = Append(results,
                  [fn |-> "check_compliance", arg |-> arg,
                   escaped |-> out.escaped, invoked |-> out.invoked,
                   ret |-> mem.ret, value |-> Deref(mem.ret, mem.heap),
                   after |-> out.data])
    /\ UNCHANGED edits

Checker(fn, data) ==
    CASE fn = "check_beam_compliance" -> check_beam_compliance(data)
      [] fn = "check_column_compliance" -> check_column_compliance(data)
      [] fn = "check_slab_compliance" -> check_slab_compliance(data)
      [] fn = "check_footing_compliance" -> check_footing_compliance(data)

CheckerNames ==
    {"check_beam_compliance", "check_column_compliance",
     "check_slab_compliance", "check_footing_compliance"}

\* the checker of a record's member type; any checker for a record whose
\* member type names none
CheckersFor(rec) ==
    LET member_type == Lower(Get(rec, "member_type", PyChars(<<>>)))
    IN  CASE member_type = BEAM -> {"check_beam_compliance"}
          [] member_type = COLUMN -> {"check_column_compliance"}
          [] member_type = SLAB -> {"check_slab_compliance"}
          [] member_type = FOOTING -> {"check_footing_compliance"}
          [] OTHER -> CheckerNames

\* result = check_<member>_compliance(design_data), called directly
CallChecker(fn) ==
    /\ Len(results) < MaxCalls
    /\ fn \in CheckersFor(design_data)
    /\ \E arg \in {View(design_data, heap)} :
       \E res \in {Checker(fn, arg)} :
           results' = Append(results,
               [fn |-> fn, arg |-> arg, escaped |-> FALSE,
                invoked |-> PyNone, ret |-> res, value |-> res,
                after |-> arg])
    /\ UNCHANGED <<design_data, heap, edits>>

\* the caller may edit the record between two calls
MayEdit ==
    /\ edits < MaxEdits
    /\ Len(results) >= 1
    /\ Len(results) < MaxCalls
    /\ IsDict(design_data)

SetNested(rec, k1, k2, v) == SetItem(rec, k1, SetItem(rec.d[k1], k2, v))

\* design_data['reinforcement']['num_bars'] += 2
AddBars ==
    /\ MayEdit
    /\ LET num_bars == design_data.d["reinforcement"].d["num_bars"].v
           more     == Add(num_bars, I(2))
       IN  /\ Le(more, I(MaxBars))
           /\ design_data' =
                  SetNested(design_data, "reinforcement", "num_bars", PyNum(more))
    /\ edits' = edits + 1
    /\ UNCHANGED <<heap, results>>

\* design_data['reinforcement']['spacing'] -= 100
TightenSpacing ==
    /\ MayEdit
    /\ LET spacing == design_data.d["reinforcement"].d["spacing"].v
       IN  /\ Gt(spacing, I(100))
           /\ design_data' =
                  SetNested(design_data, "reinforcement", "spacing",
                            PyNum(Sub(spacing, I(100))))
    /\ edits' = edits + 1
    /\ UNCHANGED <<heap, results>>

\* design_data['building_parameters'] = {'num_floors': 3, 'tributary_area': 10}
EditBuilding ==
    /\ MayEdit
    /\ design_data' =
           SetItem(design_data, "building_parameters",
                   PyDict([num_floors |-> PyNum(I(3)),
                           tributary_area |-> PyNum(I(10))]))
    /\ design_data' # design_data
    /\ edits' = edits + 1
    /\ UNCHANGED <<heap, results>>

LowerToUpper ==
    [a |-> "A", b |-> "B", c |-> "C", d |-> "D", e |-> "E", f |-> "F",
     g |-> "G", h |-> "H", i |-> "I", j |-> "J", k |-> "K", l |-> "L",
     m |-> "M", n |-> "N", o |-> "O", p |-> "P", q |-> "Q", r |-> "R",
     s |-> "S", t |-> "T", u |-> "U", v |-> "V", w |-> "W", x |-> "X",
     y |-> "Y", z |-> "Z"]

\* str.upper()
Upper(x) ==
    PyChars([i \in DOMAIN x.c |->
                IF x.c[i] \in DOMAIN LowerToUpper
                THEN LowerToUpper[x.c[i]] ELSE x.c[i]])

\* design_data['member_type'] = design_data['member_type'].upper()
ChangeCase ==
    /\ MayEdit
    /\ HasKey(design_data, "member_type")
    /\ design_data.d["member_type"].t = "chars"
    /\ design_data' = SetItem(design_data, "member_type",
                              Upper(design_data.d["member_type"]))
    /\ design_data' # design_data
    /\ edits' = edits + 1
    /\ UNCHANGED <<heap, results>>

Next ==
    \/ CheckCompliance
    \/ \E fn \in CheckerNames : CallChecker(fn)
    \/ AddBars
    \/ TightenSpacing
    \/ EditBuilding
    \/ ChangeCase

Spec == Init /\ [][Next]_vars

----------------------------------------------------------------------------
(* The review of one design: the engineer checks the design, revises one   *)
(* entry of the form and checks it again                                   *)

\* loads so small that a 6 m beam's design moment is below 0.001 kNm
TinyLoads ==
    PyDict([dead_load |-> PyNum(F(1, -4)), live_load |-> PyNum(Zero),
            axial_load |-> PyNum(F(1, -4)), moment |-> PyNum(Zero)])

\* loads that bring the 6 m beam of 200 x 300 to k = Mu/(fck b d^2) = 0.13798
NearLimitLoads ==
    PyDict([dead_load |-> PyNum(F(5829, -3)), live_load |-> PyNum(Zero),
            axial_load |-> PyNum(I(100)), moment |-> PyNum(Zero)])

ReviewDimensions(member_type) ==
    CASE member_type = BEAM -> {Dimensions(I(6), I(200), I(300))}
      [] member_type = COLUMN -> {Dimensions(I(3), I(300), I(300))}
      [] member_type = SLAB -> {Dimensions(I(4), I(3), I(150))}
      [] member_type = FOOTING -> {Dimensions(I(2), I(2), I(500))}

ReviewRecords ==
    UNION {{Record(mt, dm, rf, ld, fl) :
                dm \in ReviewDimensions(mt),
                rf \in {Reinforcement(0, 16, 150), Reinforcement(4, 16, 150)},
                ld \in {Absent, CallerLoads, TinyLoads, NearLimitLoads},
                fl \in FlagOptions} :
           mt \in {BEAM, COLUMN, SLAB, FOOTING}}

InitReview ==
    \E rec \in ReviewRecords :
        /\ design_data = IF HasKey(rec, "loads")
                         THEN SetItem(rec, "loads", PyRef(1)) ELSE rec
        /\ heap = IF HasKey(rec, "loads") THEN <<rec.d["loads"]>> ELSE <<>>
        /\ results = <<>>
        /\ edits = 0

\* the form is sent without the field k of Dimensions
DropDimension(k) ==
    /\ MayEdit
    /\ k \in DOMAIN design_data.d["dimensions"].d
    /\ design_data' =
           SetItem(design_data, "dimensions",
                   PyDict([x \in DOMAIN design_data.d["dimensions"].d \ {k} |->
                              design_data.d["dimensions"].d[x]]))
    /\ edits' = edits + 1
    /\ UNCHANGED <<heap, results>>

\* design_data['dimensions'][k] = 0: a section without area
FlattenSection(k) ==
    /\ MayEdit
    /\ design_data' = SetNested(design_data, "dimensions", k, PyNum(Zero))
    /\ edits' = edits + 1
    /\ UNCHANGED <<heap, results>>

\* the sizes the engineer tries for a dimension: a span (m) for the length,
\* a side (mm) for the breadth or the depth
TrialSizes ==
    [length |-> {I(6), I(8)}, breadth |-> {I(180), I(200)},
     depth |-> {I(180), I(200)}]

\* design_data['dimensions'][k] = v
Resize(k, v) ==
    /\ MayEdit
    /\ design_data' = SetNested(design_data, "dimensions", k, PyNum(v))
    /\ edits' = edits + 1
    /\ UNCHANGED <<heap, results>>

\* the numeric fields of the form, by the section that holds them
NumericFields ==
    [dimensions |-> {"length", "breadth", "depth"},
     reinforcement |-> {"num_bars", "bar_diameter", "cover", "spacing"},
     building_parameters |-> {"num_floors", "floor_height", "slab_thickness",
                              "tributary_area"},
     wind_parameters |-> {"terrain_category", "importance_factor"}]

\* design_data[k1][k2] = str(design_data[k1][k2]): the form sends the
\* number as text, "4" for 4 and "2.5" for 2.5
EnterAsText(k1, k2) ==
    /\ MayEdit
    /\ k1 \in DOMAIN design_data.d
    /\ k2 \in DOMAIN design_data.d[k1].d
    /\ design_data.d[k1].d[k2].t = "num"
    /\ design_data' =
           SetNested(design_data, k1, k2,
                     PyNumStr(design_data.d[k1].d[k2].v,
                              Trunc(design_data.d[k1].d[k2].v)
                                  # design_data.d[k1].d[k2].v))
    /\ edits' = edits + 1
    /\ UNCHANGED <<heap, results>>

\* design_data['materials'][k] = a grade the tables do not list
MisspellGrade(k) ==
    /\ MayEdit
    /\ design_data' =
           SetNested(design_data, "materials", k,
                     IF k = "concrete_grade" THEN PyStr("M22")
                     ELSE PyStr("Fe250"))
    /\ edits' = edits + 1
    /\ UNCHANGED <<heap, results>>

\* design_data['wind_parameters'] = {'importance_factor': 1.5}
SetImportance ==
    /\ MayEdit
    /\ design_data' =
           SetItem(design_data, "wind_parameters",
                   PyDict([importance_factor |-> PyNum(F(15, -1))]))
    /\ edits' = edits + 1
    /\ UNCHANGED <<heap, results>>

\* design_data['reinforcement'].update({'tie_diameter': 4, 'tie_spacing': 400})
DetailTies ==
    /\ MayEdit
    /\ design_data' =
           SetNested(SetNested(design_data, "reinforcement", "tie_diameter",
                               PyNum(I(4))),
                     "reinforcement", "tie_spacing", PyNum(I(400)))
    /\ edits' = edits + 1
    /\ UNCHANGED <<heap, results>>

NextReview ==
    \/ SetImportance
    \/ DetailTies
    \/ \E k \in DOMAIN TrialSizes : \E v \in TrialSizes[k] : Resize(k, v)
    \/ \E k \in {"concrete_grade", "steel_grade"} : MisspellGrade(k)
    \/ \E k1 \in DOMAIN NumericFields :
           \E k2 \in NumericFields[k1] : EnterAsText(k1, k2)
    \/ CheckCompliance
    \/ \E fn \in CheckerNames : CallChecker(fn)
    \/ \E k \in {"length", "breadth", "depth"} : DropDimension(k)
    \/ \E k \in {"breadth", "depth"} : FlattenSection(k)

SpecReview == InitReview /\ [][NextReview]_vars

----------------------------------------------------------------------------
(* Properties                                                               *)

Orchestrated(i) == results[i].fn = "check_compliance" /\ ~results[i].escaped

HasChecks(i) == "checks" \in DOMAIN results[i].value

HasError(i) == "error" \in DOMAIN results[i].value

CheckNames(r) == [c \in DOMAIN r.checks |-> r.checks[c].name]

Passes(r) == [c \in DOMAIN r.checks |-> r.checks[c].pass]

\* C1: whenever one of the four member checkers returns a result with a
\* checks map, overall_compliance is true exactly when every entry of the
\* map has pass true, and status is "PASS" exactly when overall_compliance
\* is true and "FAIL" otherwise.
C1_OverallIsConjunctionOfPasses ==
    \A i \in DOMAIN results :
        (results[i].fn \in CheckerNames /\ HasChecks(i)) =>
            LET r == results[i].value
            IN  /\ r.overall_compliance
                     <=> (\A c \in DOMAIN r.checks : r.checks[c].pass)
                /\ r.status = (IF r.overall_compliance THEN "PASS" ELSE "FAIL")

\* a checker returned FAIL with some checks passing and some failing
C1_MixedChecksFail ==
    \E i \in DOMAIN results :
        /\ results[i].fn \in CheckerNames
        /\ HasChecks(i)
        /\ \E c \in DOMAIN results[i].value.checks :
               results[i].value.checks[c].pass
        /\ \E c \in DOMAIN results[i].value.checks :
               ~results[i].value.checks[c].pass
        /\ results[i].value.status = "FAIL"

\* C2: no call of check_compliance or of a member checker lets an exception
\* escape: every call returns a result object, and a result that carries an
\* error field carries the member_type tag.
C2_NoExceptionEscapes ==
    \A i \in DOMAIN results :
        /\ ~results[i].escaped
        /\ HasError(i) => "member_type" \in DOMAIN results[i].value

\* C3: a result of a member checker or of check_compliance that carries an
\* error field carries no checks, no overall_compliance, no status and no
\* design_summary, wherever in the check sequence the fault was raised.
C3_ErrorResultsCarryNoChecks ==
    \A i \in DOMAIN results :
        HasError(i) =>
            DOMAIN results[i].value
                \cap {"checks", "overall_compliance", "status",
                      "design_summary"} = {}

\* a checker hit a division by zero after its first computations
C3_FaultInsideChecker ==
    \E i \in DOMAIN results :
        /\ results[i].fn \in CheckerNames
        /\ HasError(i)
        /\ results[i].value.error.detail = PyStr("ZeroDivisionError")

\* the member type a record names, whatever the case of its letters
NamedType(rec) ==
    LET raw == Get(rec, "member_type", PyChars(<<>>))
    IN  IF raw.t = "chars" THEN Upper(raw) ELSE raw

Names(rec, member_type) == NamedType(rec) = Upper(member_type)

NamesSupported(rec) == \E mt \in {BEAM, COLUMN, SLAB, FOOTING} : Names(rec, mt)

\* two records that differ at most in the case of member_type
SameButCase(a, b) ==
    /\ IsDict(a) /\ IsDict(b)
    /\ HasKey(a, "member_type") /\ HasKey(b, "member_type")
    /\ SetItem(a, "member_type", NamedType(a))
         = SetItem(b, "member_type", NamedType(b))

UnsupportedResult(i) ==
    /\ results[i].invoked = PyNone
    /\ HasError(i)
    /\ ~HasChecks(i)
    /\ "supported_types" \in DOMAIN results[i].value
    /\ results[i].value.supported_types = <<BEAM, COLUMN, SLAB, FOOTING>>

\* the load derivation check_compliance runs before the dispatch raised
DerivationRaised(i) ==
    /\ AutoCalcRequested(results[i].arg)
    /\ IsErr(auto_calculate_loads(
                 Lower(Get(results[i].arg, "member_type", PyChars(<<>>))),
                 results[i].arg).raised)

\* C4 as claimed: check_compliance invokes the beam, column, slab or footing
\* checker exactly when the lower-cased member_type is that name, so records
\* that differ only in the case of member_type get equal results; for every
\* other string it invokes no checker and returns an error with the list of
\* the four supported types and no checks.
C4_DispatchOnLoweredTypeAlways ==
    /\ \A i \in DOMAIN results :
           Orchestrated(i) =>
               /\ \A mt \in {BEAM, COLUMN, SLAB, FOOTING} :
                      Names(results[i].arg, mt) <=> results[i].invoked = mt
               /\ ~NamesSupported(results[i].arg) => UnsupportedResult(i)
    /\ \A i, j \in DOMAIN results :
           (Orchestrated(i) /\ Orchestrated(j)
               /\ SameButCase(results[i].arg, results[j].arg))
               => results[i].value = results[j].value

\* C4 as amended: the same, for the calls whose load derivation returns; a
\* call whose load derivation raises invokes no checker and returns an
\* error result without checks.
C4_DispatchOnLoweredType ==
    /\ \A i \in DOMAIN results :
           Orchestrated(i) =>
               IF DerivationRaised(i)
               THEN results[i].invoked = PyNone /\ HasError(i) /\ ~HasChecks(i)
               ELSE /\ \A mt \in {BEAM, COLUMN, SLAB, FOOTING} :
                           Names(results[i].arg, mt) <=> results[i].invoked = mt
                    /\ ~NamesSupported(results[i].arg) => UnsupportedResult(i)
    /\ \A i, j \in DOMAIN results :
           (Orchestrated(i) /\ Orchestrated(j)
               /\ SameButCase(results[i].arg, results[j].arg))
               => results[i].value = results[j].value

\* two calls on records that differ in the case of member_type only, both
\* answered by a checker
C4_UpperAndLowerCaseChecked ==
    \E i, j \in DOMAIN results :
        /\ Orchestrated(i) /\ Orchestrated(j)
        /\ SameButCase(results[i].arg, results[j].arg)
        /\ results[i].arg # results[j].arg
        /\ results[i].invoked # PyNone
        /\ HasChecks(i) /\ HasChecks(j)

\* the record asks for auto-calculation in so many words
RequestsAutoCalc(rec) ==
    /\ HasKey(rec, "auto_calculate_loads")
    /\ Truthy(rec.d["auto_calculate_loads"])

\* C5: check_compliance derives loads only when the record has no loads or
\* asks for auto-calculation; a record with explicit loads whose
\* auto_calculate_loads is false or absent is checked with the caller's
\* loads, which the call leaves in the record.
C5_ExplicitLoadsAreConsumed ==
    \A i \in DOMAIN results :
        (Orchestrated(i) /\ HasKey(results[i].arg, "loads")
            /\ ~RequestsAutoCalc(results[i].arg))
            => /\ results[i].after.d["loads"] = results[i].arg.d["loads"]
               /\ "calculated_loads" \notin DOMAIN results[i].value

\* C6: a result of check_compliance has recommendations exactly when its
\* overall_compliance is false; the list has two entries and depends on the
\* member type alone; passing results and error results have none.
C6_RecommendationsIffNonCompliant ==
    /\ \A i \in DOMAIN results :
           Orchestrated(i) =>
               /\ "recommendations" \in DOMAIN results[i].value
                    <=> /\ "overall_compliance" \in DOMAIN results[i].value
                        /\ ~results[i].value.overall_compliance
               /\ "recommendations" \in DOMAIN results[i].value
                    => Len(results[i].value.recommendations) = 2
    /\ \A i, j \in DOMAIN results :
           (Orchestrated(i) /\ Orchestrated(j)
               /\ "recommendations" \in DOMAIN results[i].value
               /\ "recommendations" \in DOMAIN results[j].value
               /\ results[i].value.member_type = results[j].value.member_type)
               => results[i].value.recommendations
                    = results[j].value.recommendations

\* two failing results of one member type with different failed checks
C6_SameAdviceForDifferentFailures ==
    \E i, j \in DOMAIN results :
        /\ Orchestrated(i) /\ Orchestrated(j)
        /\ "recommendations" \in DOMAIN results[i].value
        /\ "recommendations" \in DOMAIN results[j].value
        /\ results[i].value.member_type = results[j].value.member_type
        /\ Passes(results[i].value) # Passes(results[j].value)

\* C7: the keys of a returned checks map, in insertion order, are the fixed
\* sequence of the member type; the slab's sequence ends with
\* distribution_steel exactly for a one-way slab.
C7_FixedCheckSequence ==
    \A i \in DOMAIN results :
        HasChecks(i) =>
            LET r == results[i].value
            IN  CheckNames(r) =
                CASE r.member_type = BEAM ->
                       <<"flexural_strength", "minimum_steel", "maximum_steel",
                         "shear_strength", "deflection", "development_length">>
                  [] r.member_type = COLUMN ->
                       <<"minimum_dimension", "slenderness_ratio",
                         "minimum_steel", "maximum_steel", "axial_capacity",
                         "minimum_bars", "tie_reinforcement">>
                  [] r.member_type = SLAB ->
                       <<"minimum_thickness", "flexural_strength",
                         "minimum_steel", "maximum_spacing", "shear_strength">>
                       \o (IF r.design_summary.slab_type = "one_way"
                           THEN <<"distribution_steel">> ELSE <<>>)
                  [] r.member_type = FOOTING ->
                       <<"bearing_pressure", "minimum_thickness",
                         "flexural_strength", "minimum_steel",
                         "maximum_spacing", "one_way_shear", "punching_shear">>

\* a two-way slab was checked: five checks, no distribution_steel
C7_TwoWaySlabChecked ==
    \E i \in DOMAIN results :
        /\ results[i].fn = "check_slab_compliance"
        /\ HasChecks(i)
        /\ results[i].value.design_summary.slab_type = "two_way"
        /\ Len(results[i].value.checks) = 5

\* C8: two calls of check_compliance in succession on one record, the
\* second on the record as the first left it, return equal results; and no
\* call changes a field of a result object returned earlier.
C8_SecondCallSameResult ==
    /\ \A i \in DOMAIN results :
           (i + 1 \in DOMAIN results
               /\ results[i].fn = "check_compliance"
               /\ results[i + 1].fn = "check_compliance"
               /\ results[i + 1].arg = results[i].after)
               => /\ results[i + 1].escaped = results[i].escaped
                  /\ results[i + 1].value = results[i].value
    /\ \A i \in DOMAIN results :
           Orchestrated(i) => Deref(results[i].ret, heap) = results[i].value

\* a second call recomputed the loads the first call had derived: the two
\* results are distinct objects
C8_LoadsDerivedTwice ==
    \E i \in DOMAIN results :
        /\ i + 1 \in DOMAIN results
        /\ Orchestrated(i) /\ Orchestrated(i + 1)
        /\ results[i + 1].arg = results[i].after
        /\ HasChecks(i)
        /\ "calculated_loads" \in DOMAIN results[i].value
        /\ results[i + 1].ret # results[i].ret

SteelChecks == {"flexural_strength", "minimum_steel", "distribution_steel"}

\* b is a with as many bars or more and the same bar spacing or less
MoreSteel(a, b) ==
    /\ IsDict(a) /\ IsDict(b)
    /\ HasKey(a, "reinforcement") /\ HasKey(b, "reinforcement")
    /\ SetItem(a, "reinforcement", PyNone) = SetItem(b, "reinforcement", PyNone)
    /\ LET ra == a.d["reinforcement"]
           rb == b.d["reinforcement"]
       IN  /\ SetItem(SetItem(ra, "num_bars", PyNone), "spacing", PyNone)
                = SetItem(SetItem(rb, "num_bars", PyNone), "spacing", PyNone)
           /\ Le(ra.d["num_bars"].v, rb.d["num_bars"].v)
           /\ Ge(ra.d["spacing"].v, rb.d["spacing"].v)

\* C10: of two calls of one function on records that differ only in the
\* provided steel, the call with more steel (more bars, smaller spacing)
\* passes every steel-adequacy check the other passes.
C10_MoreSteelKeepsPass ==
    \A i, j \in DOMAIN results :
        (results[i].fn = results[j].fn /\ HasChecks(i) /\ HasChecks(j)
            /\ MoreSteel(results[i].after, results[j].after))
            => \A c \in DOMAIN results[i].value.checks :
                   (results[i].value.checks[c].name \in SteelChecks
                       /\ results[i].value.checks[c].pass)
                   => \E e \in DOMAIN results[j].value.checks :
                          /\ results[j].value.checks[e].name
                               = results[i].value.checks[c].name
                          /\ results[j].value.checks[e].pass

\* added steel turned a failing steel-adequacy check into a passing one
C10_AddedSteelPasses ==
    \E i, j \in DOMAIN results :
        /\ results[i].fn = results[j].fn /\ HasChecks(i) /\ HasChecks(j)
        /\ MoreSteel(results[i].after, results[j].after)
        /\ \E c \in DOMAIN results[i].value.checks :
               /\ results[i].value.checks[c].name \in SteelChecks
               /\ ~results[i].value.checks[c].pass
               /\ results[j].value.checks[c].pass

----------------------------------------------------------------------------
(* The formula library called on its own: a caller computes a formula,     *)
(* raises the moment or adds steel and computes again                      *)

FormulaNames ==
    {"calculate_required_area_of_steel", "calculate_shear_capacity",
     "check_minimum_steel", "check_maximum_steel"}

\* the parameters of each function, as formulas.py declares them
Parameters(fn) ==
    CASE fn = "calculate_required_area_of_steel" ->
           {"moment", "fck", "fy", "b", "d"}
      [] fn = "calculate_shear_capacity" -> {"b", "d", "fck", "Ast"}
      [] fn = "check_minimum_steel" -> {"Ast", "b", "d", "fy"}
      [] fn = "check_maximum_steel" -> {"Ast", "b", "d"}

\* what the call fn(...) gives on the arguments taken from a: the value
\* returned, or the exception raised
Formula(fn, a) ==
    CASE fn = "calculate_required_area_of_steel" ->
           calculate_required_area_of_steel(a.moment, a.fck, a.fy, a.b, a.d)
      [] fn = "calculate_shear_capacity" ->
           calculate_shear_capacity(a.b, a.d, a.fck, a.Ast)
      [] fn = "check_minimum_steel" ->
           Only([r \in {check_minimum_steel(a.Ast, a.b, a.d, a.fy)} |->
               IF IsErr(r.limit) THEN r.limit ELSE r])
      [] fn = "check_maximum_steel" ->
           Only([r \in {check_maximum_steel(a.Ast, a.b, a.d)} |->
               IF IsErr(r.limit) THEN r.limit ELSE r])

\* moments in Nmm, strengths in N/mm2, lengths in mm, steel areas in mm2
FormulaArguments ==
    [moment : {F(-5, 6), I(999), I(1000), F(5, 7)},
     fck : {Zero, I(20), I(25)}, fy : {Zero, I(415)},
     b : {Zero, I(300)}, d : {Zero, I(550)},
     Ast : {I(-100), Zero, I(100), I(804)}]

InitFormulas ==
    /\ design_data \in FormulaArguments
    /\ heap = <<>>
    /\ results = <<>>
    /\ edits = 0

\* value = fn(...)
CallFormula(fn) ==
    /\ Len(results) < MaxCalls
    /\ results' = Append(results,
           [fn |-> fn, arg |-> design_data, value |-> Formula(fn, design_data)])
    /\ UNCHANGED <<design_data, heap, edits>>

\* the caller raises one argument (the moment or the steel area) to v
Raised(k, v) ==
    /\ edits < MaxEdits
    /\ Len(results) >= 1
    /\ Len(results) < MaxCalls
    /\ v \in {a[k] : a \in FormulaArguments}
    /\ Less(design_data[k], v)
    /\ design_data' = [design_data EXCEPT ![k] = v]
    /\ edits' = edits + 1
    /\ UNCHANGED <<heap, results>>

NextFormulas ==
    \/ \E fn \in FormulaNames : CallFormula(fn)
    \/ \E v \in {I(999), I(1000), F(5, 7)} : Raised("moment", v)
    \/ \E v \in {Zero, I(100), I(804)} : Raised("Ast", v)

SpecFormulas == InitFormulas /\ [][NextFormulas]_vars

----------------------------------------------------------------------------
(* Properties of the review                                                 *)

CheckedAs(i, member_type) ==
    HasChecks(i) /\ results[i].value.member_type = member_type

\* the beam's design moment Mu of a record, in kNm (not rounded)
BeamDesignMoment(data) ==
    LET span == Mul(ToFloat(Get(data.d["dimensions"], "length", PyNum(Zero))),
                    I(1000))
        dead_load == ToFloat(Get(data.d["loads"], "dead_load", PyNum(Zero)))
        live_load == ToFloat(Get(data.d["loads"], "live_load", PyNum(Zero)))
        wu == Add(Mul(LOAD_FACTOR_DEAD, dead_load),
                  Mul(LOAD_FACTOR_LIVE, live_load))
    IN  calculate_design_moment(Div(span, I(1000)), wu)

\* C11: every figure of design_summary is the figure that decided the
\* related check.  For a beam: design_moment is the rounded design moment Mu,
\* and the moment from which the required steel of flexural_strength is
\* computed is that same Mu (in Nmm), however small it is.  For a column:
\* design_axial_load is the design_load compared in axial_capacity.  For a
\* footing: the bearing_pressure of the summary is the one compared in the
\* bearing_pressure check.
C11_SummaryFiguresDecideChecks ==
    \A i \in DOMAIN results :
        /\ CheckedAs(i, BEAM) =>
              LET Mu == BeamDesignMoment(results[i].after)
              IN  /\ results[i].value.design_summary.design_moment = Round(Mu, 2)
                  /\ MomentInNmm(Mul(Mu, F(1, 6))) = Mul(Mu, F(1, 6))
        /\ CheckedAs(i, COLUMN) =>
              results[i].value.design_summary.design_axial_load
                  = results[i].value.checks[5].design_load
        /\ CheckedAs(i, FOOTING) =>
              results[i].value.design_summary.bearing_pressure
                  = results[i].value.checks[1].bearing_pressure

\* a required field of Dimensions is absent from the record
LacksDimension(rec) ==
    \E k \in {"length", "breadth", "depth"} :
        k \notin DOMAIN rec.d["dimensions"].d

\* C12: a design record in which length, breadth or depth is absent from
\* Dimensions makes the member checker return an error result: no checks map
\* and no overall_compliance.
C12_MissingDimensionIsAnError ==
    \A i \in DOMAIN results :
        (results[i].fn \in CheckerNames /\ LacksDimension(results[i].arg))
            => (HasError(i) /\ ~HasChecks(i)
                /\ "overall_compliance" \notin DOMAIN results[i].value)

\* breadth = 0 or depth = 0: the section area is zero
Degenerate(rec) ==
    \E k \in {"breadth", "depth"} :
        /\ k \in DOMAIN rec.d["dimensions"].d
        /\ rec.d["dimensions"].d[k] = PyNum(Zero)

\* C13: for every member type, a record whose breadth or depth is 0 makes
\* the member checker return an error result and no checks map, whatever the
\* loads and the reinforcement are.
C13_DegenerateSectionIsAnError ==
    \A i \in DOMAIN results :
        (results[i].fn \in CheckerNames /\ Degenerate(results[i].arg))
            => (HasError(i) /\ ~HasChecks(i))

\* the record with every number sent as text read as that number
Numeric(rec) ==
    PyDict([k1 \in DOMAIN rec.d |->
        IF rec.d[k1].t # "dict" THEN rec.d[k1]
        ELSE PyDict([k2 \in DOMAIN rec.d[k1].d |->
                 IF rec.d[k1].d[k2].t = "numstr"
                 THEN PyNum(rec.d[k1].d[k2].v) ELSE rec.d[k1].d[k2]])])

\* what a result decides: its error, its checks and its overall compliance
Verdict(r) ==
    [error |-> "error" \in DOMAIN r,
     checks |-> IF "checks" \in DOMAIN r THEN r.checks ELSE <<>>,
     overall_compliance |-> "overall_compliance" \in DOMAIN r
                            /\ r.overall_compliance]

\* C14: a numeric field of Dimensions, Reinforcement, BuildingParameters or
\* WindParameters sent as a numeric string gives the same result of
\* check_compliance as the same field sent as a number.
C14_TextAndNumberAgree ==
    \A i, j \in DOMAIN results :
        (/\ i < j /\ Orchestrated(i) /\ Orchestrated(j)
         /\ IsDict(results[i].after) /\ IsDict(results[j].arg)
         /\ results[j].arg # results[i].after
         /\ Numeric(results[j].arg) = Numeric(results[i].after))
            => Verdict(results[j].value) = Verdict(results[i].value)

\* the grade k of a record is a string that the grade table does not list
UnknownGrade(rec, k, table) ==
    /\ rec.d["materials"].d[k].t = "str"
    /\ rec.d["materials"].d[k].s \notin DOMAIN table

\* C15: a member checker called with a concrete grade string that is not a
\* key of CONCRETE_GRADES returns exactly the checks and overall_compliance
\* it returns for grade M20, and one called with a steel grade string that is
\* not a key of STEEL_GRADES exactly those it returns for Fe500; the unknown
\* grade gives an error result only where the default grade gives one.
C15_UnknownGradeIsDefaultGrade ==
    \A i \in DOMAIN results :
        results[i].fn \in CheckerNames =>
            /\ UnknownGrade(results[i].arg, "concrete_grade", CONCRETE_GRADES) =>
                  Verdict(results[i].value)
                      = Verdict(Checker(results[i].fn,
                                        SetNested(results[i].arg, "materials",
                                                  "concrete_grade", PyStr("M20"))))
            /\ UnknownGrade(results[i].arg, "steel_grade", STEEL_GRADES) =>
                  Verdict(results[i].value)
                      = Verdict(Checker(results[i].fn,
                                        SetNested(results[i].arg, "materials",
                                                  "steel_grade", PyStr("Fe500"))))

\* a record of grade Fe415 is checked, its steel grade is replaced by an
\* unknown one, and the second check decides with other figures
C15_UnknownSteelGradeChecked ==
    \E i \in DOMAIN results :
        /\ i > 1
        /\ results[i].fn \in CheckerNames /\ results[i - 1].fn = results[i].fn
        /\ UnknownGrade(results[i].arg, "steel_grade", STEEL_GRADES)
        /\ HasChecks(i) /\ HasChecks(i - 1)
        /\ results[i].value.checks # results[i - 1].value.checks

\* max(1.5(DL+LL), 1.2(DL+LL+WL), 1.5(DL+0.25*LL+WL))
GoverningCombination(DL, LL, WL) ==
    Max2(Max2(Mul(F(15, -1), Add(DL, LL)),
              Mul(F(12, -1), Add(Add(DL, LL), WL))),
         Mul(F(15, -1), Add(Add(DL, Mul(F(25, -2), LL)), WL)))

\* C16: for a column and for a footing, auto_calculate_loads writes under
\* the key axial_load of the record's Loads (the key the column and the
\* footing checker read) the governing combination of the dead, live and
\* wind loads it aggregated over the floors.
C16_AxialLoadIsGoverningCombination ==
    \A i \in DOMAIN results :
        (/\ Orchestrated(i)
         /\ results[i].invoked \in {COLUMN, FOOTING}
         /\ "calculated_loads" \in DOMAIN results[i].value) =>
            LET loads == results[i].value.calculated_loads.d
                calc  == results[i].value.load_calculations.d
            IN  /\ "axial_load" \in DOMAIN loads
                /\ "total_wind_load" \in DOMAIN calc
                /\ loads["axial_load"]
                       = Str(GoverningCombination(calc["total_dead_load"].v,
                                                  calc["total_live_load"].v,
                                                  calc["total_wind_load"].v))

\* C17: the wind pressure auto_calculate_loads derives for a record (the
\* wind_pressure of wind_calculations) is 0.6 * vz^2 / 1000 multiplied by
\* the importance factor of the record's WindParameters, for every member
\* type.
C17_WindPressureScalesWithImportance ==
    \A i \in DOMAIN results :
        (/\ Orchestrated(i)
         /\ "calculated_loads" \in DOMAIN results[i].value
         /\ HasKey(results[i].after, "wind_calculations")) =>
            LET wind == results[i].after.d["wind_calculations"].d
                vz   == wind["design_wind_speed"].v
                importance_factor ==
                    ToFloat(results[i].after.d["wind_parameters"]
                                .d["importance_factor"])
            IN  wind["wind_pressure"].v
                    = Mul(Div(Mul(F(6, -1), Mul(vz, vz)), I(1000)),
                          importance_factor)

\* the check of a result that carries the given name
CheckNamed(i, name) ==
    LET checks == results[i].value.checks
    IN  checks[CHOOSE c \in DOMAIN checks : checks[c].name = name]

\* the smaller side of the section of a record, in mm
SmallerSide(rec) ==
    LET width == ToFloat(Get(rec.d["dimensions"], "breadth", PyNum(Zero)))
        depth == ToFloat(Get(rec.d["dimensions"], "depth", PyNum(Zero)))
    IN  IF Less(depth, width) THEN depth ELSE width

\* C18: for every column on which a checks map is returned, a smaller side
\* below 200 mm makes minimum_dimension fail and overall_compliance false,
\* whatever the other six checks report; a smaller side of 200 mm or more
\* makes minimum_dimension pass.
C18_NarrowColumnFails ==
    \A i \in DOMAIN results :
        CheckedAs(i, COLUMN) =>
            /\ \E c \in DOMAIN results[i].value.checks :
                   results[i].value.checks[c].name = "minimum_dimension"
            /\ Less(SmallerSide(results[i].after), I(200)) =>
                   /\ ~CheckNamed(i, "minimum_dimension").pass
                   /\ ~results[i].value.overall_compliance
            /\ Ge(SmallerSide(results[i].after), I(200)) =>
                   CheckNamed(i, "minimum_dimension").pass

\* a column with a side of 180 mm passed its six other checks and was
\* rejected
C18_NarrowColumnRejected ==
    \E i \in DOMAIN results :
        /\ CheckedAs(i, COLUMN)
        /\ SmallerSide(results[i].after) = I(180)
        /\ ~results[i].value.overall_compliance
        /\ \A c \in DOMAIN results[i].value.checks :
               results[i].value.checks[c].name # "minimum_dimension"
                   => results[i].value.checks[c].pass

\* the plan of a slab record, in m: its longer and its shorter side
SlabPlan(rec) ==
    LET length  == ToFloat(Get(rec.d["dimensions"], "length", PyNum(Zero)))
        breadth == ToFloat(Get(rec.d["dimensions"], "breadth", PyNum(Zero)))
    IN  IF Less(length, breadth)
        THEN [longer |-> breadth, shorter |-> length]
        ELSE [longer |-> length, shorter |-> breadth]

\* C19: for every slab with positive length and breadth that the slab
\* checker checks, slab_type is "one_way" and the checks map contains
\* distribution_steel exactly when the longer side is 2.0 times the shorter
\* side or more (the ratio 2.0 itself is one-way); otherwise slab_type is
\* "two_way", distribution_steel is absent and overall_compliance is the AND
\* of the five remaining checks.  (The sides are decimal numbers of up to
\* eight digits; a ratio that differs from 2.0 only beyond that precision is
\* not told apart from 2.0 by the arithmetic.)
C19_AspectRatioDecidesSlabType ==
    \A i \in DOMAIN results :
        (/\ CheckedAs(i, SLAB)
         /\ Less(Zero, SlabPlan(results[i].after).shorter)) =>
            LET plan   == SlabPlan(results[i].after)
                checks == results[i].value.checks
                distributed ==
                    \E c \in DOMAIN checks :
                        checks[c].name = "distribution_steel"
            IN  IF ~Less(plan.longer, Mul(I(2), plan.shorter))
                THEN /\ results[i].value.design_summary.slab_type = "one_way"
                     /\ distributed
                ELSE /\ results[i].value.design_summary.slab_type = "two_way"
                     /\ ~distributed
                     /\ Len(checks) = 5
                     /\ results[i].value.overall_compliance
                            = (\A c \in DOMAIN checks : checks[c].pass)

\* a slab twice as long as it is broad was checked as a one-way slab, with
\* its distribution steel
C19_RatioTwoIsOneWay ==
    \E i \in DOMAIN results :
        /\ CheckedAs(i, SLAB)
        /\ Less(Zero, SlabPlan(results[i].after).shorter)
        /\ SlabPlan(results[i].after).longer
              = Mul(I(2), SlabPlan(results[i].after).shorter)
        /\ results[i].value.design_summary.slab_type = "one_way"
        /\ Len(results[i].value.checks) = 6

\* C20: for every beam on which a checks map is returned (whose design
\* moment is 0.001 kNm or more and whose k is defined: b and d are not 0),
\* the required steel of flexural_strength is
\* the steel the slab and footing checkers compute for the same moment and
\* section: with j = 1 - k/3 when k = Mu/(fck*b*d^2) <= 0.138 and with
\* j = 0.9 when k > 0.138.
C20_BeamSteelBranchIsStripBranch ==
    \A i \in DOMAIN results :
        CheckedAs(i, BEAM) =>
            LET rec     == results[i].after
                dims    == rec.d["dimensions"]
                reinf   == rec.d["reinforcement"]
                width   == ToFloat(Get(dims, "breadth", PyNum(Zero)))
                depth   == ToFloat(Get(dims, "depth", PyNum(Zero)))
                cover   == ToFloat(Get(reinf, "cover", PyNum(I(25))))
                bar_dia == ToFloat(Get(reinf, "bar_diameter", PyNum(I(16))))
                d       == Sub(Sub(depth, cover), Div(bar_dia, I(2)))
                fck     == Lookup(CONCRETE_GRADES,
                                  Get(rec.d["materials"], "concrete_grade",
                                      PyStr("M20")), I(20))
                fy      == Lookup(STEEL_GRADES,
                                  Get(rec.d["materials"], "steel_grade",
                                      PyStr("Fe500")), I(500))
                Mu_nmm  == Mul(BeamDesignMoment(rec), F(1, 6))
            IN  (/\ MomentInNmm(Mu_nmm) = Mu_nmm
                 /\ ~IsErr(StripSteel(Mu_nmm, fck, fy, width, d))) =>
                    CheckNamed(i, "flexural_strength").required_steel
                        = Round(StripSteel(Mu_nmm, fck, fy, width, d), 2)

\* C21: the self weight the LoadCalculator reports for a column is the
\* column's volume times the density of concrete, the volume taken from the
\* Dimensions in the units the column checker reads them in (breadth and
\* depth in mm, length in m): column_self_weight = 25 * b/1000 * d/1000 * L.
C21_ColumnSelfWeightIsVolumeTimesDensity ==
    \A i \in DOMAIN results :
        (/\ Orchestrated(i)
         /\ results[i].invoked = COLUMN
         /\ "load_calculations" \in DOMAIN results[i].value) =>
            LET dims == results[i].after.d["dimensions"]
                b    == ToFloat(Get(dims, "breadth", PyNum(Zero)))
                d    == ToFloat(Get(dims, "depth", PyNum(Zero)))
                L    == ToFloat(Get(dims, "length", PyNum(Zero)))
            IN  results[i].value.load_calculations.d["column_self_weight"].v
                    = Mul(Mul(Mul(I(25), Div(b, I(1000))), Div(d, I(1000))), L)

\* C22: an error result returned by check_compliance holds only the error
\* object: besides the error field and the member_type tag it has no other
\* field, in particular no load_calculations and no calculated_loads, also
\* when the LoadCalculator had run before the member checker failed.
C22_ErrorResultHoldsOnlyTheError ==
    \A i \in DOMAIN results :
        (Orchestrated(i) /\ HasError(i)) =>
            DOMAIN results[i].value \subseteq {"error", "member_type"}

\* C24: for every column on which a checks map is returned,
\* tie_reinforcement has pass = true, whatever the record holds (the ties
\* detailed in the record are not read), so it never makes
\* overall_compliance false.
C24_TiesAlwaysPass ==
    \A i \in DOMAIN results :
        CheckedAs(i, COLUMN) => CheckNamed(i, "tie_reinforcement").pass

\* a column whose record details ties thinner and wider apart than the
\* check's own limits passed tie_reinforcement
C24_PoorTiesPassed ==
    \E i \in DOMAIN results :
        /\ CheckedAs(i, COLUMN)
        /\ HasKey(results[i].after.d["reinforcement"], "tie_spacing")
        /\ Less(results[i].after.d["reinforcement"].d["tie_diameter"].v,
                CheckNamed(i, "tie_reinforcement").minimum_tie_diameter)
        /\ Less(CheckNamed(i, "tie_reinforcement").maximum_tie_spacing,
                results[i].after.d["reinforcement"].d["tie_spacing"].v)
        /\ CheckNamed(i, "tie_reinforcement").pass

\* the items of the record that auto_calculate_loads assigns
WrittenByLoadCalculator ==
    {"loads", "load_calculations", "wind_calculations", "building_parameters",
     "wind_parameters"}

\* C25: a call changes no item of the design record but the load block and
\* the blocks the LoadCalculator writes (loads, load_calculations,
\* wind_calculations, building_parameters, wind_parameters): member_type,
\* dimensions, materials, reinforcement and auto_calculate_loads stay as they
\* are; a member checker called directly changes nothing; and a call of
\* check_compliance on a record with loads and auto_calculate_loads false
\* leaves the whole record unchanged.
C25_CallChangesOnlyLoadBlocks ==
    [][(Len(results') > Len(results) /\ IsDict(design_data)) =>
          LET before == View(design_data, heap)
              now    == View(design_data', heap')
              call   == results'[Len(results')]
          IN  /\ \A k \in (DOMAIN before.d \cup DOMAIN now.d)
                            \ WrittenByLoadCalculator :
                     /\ k \in DOMAIN before.d
                     /\ k \in DOMAIN now.d
                     /\ now.d[k] = before.d[k]
              /\ call.fn # "check_compliance" => now = before
              /\ (/\ HasKey(before, "loads")
                  /\ Get(before, "auto_calculate_loads", PyNone) = PyBool(FALSE))
                     => now = before]_vars

\* a call derived the loads of a record and wrote them into it
C25_LoadBlocksWritten ==
    \E i \in DOMAIN results :
        /\ Orchestrated(i)
        /\ IsDict(results[i].arg)
        /\ ~HasKey(results[i].arg, "load_calculations")
        /\ WrittenByLoadCalculator \subseteq DOMAIN results[i].after.d
        /\ HasKey(results[i].arg, "dimensions")
        /\ View(design_data, heap) = results[i].after

\* C26: after any calls of check_compliance on one record, with edits of
\* its dimensions or building parameters in between, every result that
\* carries load_calculations and calculated_loads carries the loads the
\* LoadCalculator derives from the record as it is at that call; loads
\* derived in an earlier call are never reused for a changed record.
C26_LoadsAreOfTheRecordAtTheCall ==
    \A i \in DOMAIN results :
        (Orchestrated(i) /\ "calculated_loads" \in DOMAIN results[i].value) =>
            LET derived == auto_calculate_loads(results[i].invoked,
                                                results[i].arg)
            IN  /\ derived.wrote
                /\ results[i].value.load_calculations
                       = derived.data.d["load_calculations"]
                /\ results[i].value.calculated_loads
                       = derived.data.d["loads"]

\* C27: for a column whose loads are auto-calculated the load factor is
\* applied once: the design_load that axial_capacity compares with the
\* capacity is the governing factored combination critical_axial_load of
\* load_calculations.
C27_ColumnLoadFactoredOnce ==
    \A i \in DOMAIN results :
        (/\ Orchestrated(i)
         /\ CheckedAs(i, COLUMN)
         /\ "load_calculations" \in DOMAIN results[i].value) =>
            CheckNamed(i, "axial_capacity").design_load
                = Round(results[i].value.load_calculations
                            .d["critical_axial_load"].v, 2)

\* C28: for a slab whose loads are auto-calculated the slab's self weight
\* enters the factored load once: design_summary.factored_load is
\* 1.5 * (25 * thickness/1000 + total superimposed dead load) + 1.5 * live
\* load.
C28_SlabSelfWeightCountedOnce ==
    \A i \in DOMAIN results :
        (/\ Orchestrated(i)
         /\ CheckedAs(i, SLAB)
         /\ "load_calculations" \in DOMAIN results[i].value) =>
            LET calc      == results[i].value.load_calculations.d
                thickness == ToFloat(Get(results[i].after.d["dimensions"],
                                         "depth", PyNum(Zero)))
                self      == Mul(I(25), Div(thickness, I(1000)))
                sidl      == calc["sidl"].d["total_sidl"].v
                live      == calc["live_load"].d["live_load"].v
            IN  results[i].value.design_summary.factored_load
                    = Round(Add(Mul(F(15, -1), Add(self, sidl)),
                                Mul(F(15, -1), live)), 2)

\* an argument of the call is negative, or is a zero b, d, fy or fck
FaultyArgument(fn, a) ==
    \E k \in Parameters(fn) :
        \/ Less(a[k], Zero)
        \/ k \in {"b", "d", "fy", "fck"} /\ a[k] = Zero

\* C23: the functions of the formula library signal an error for every
\* negative argument and for every zero divisor (b = 0, d = 0, fy = 0,
\* fck = 0): they never return a result for such arguments.
C23_FaultyArgumentIsSignalled ==
    \A i \in DOMAIN results :
        FaultyArgument(results[i].fn, results[i].arg)
            => IsErr(results[i].value)

\* the calls i and j computed fn on the same arguments save the argument k,
\* which is not negative and is not smaller in j than in i
SameButRaised(i, j, fn, k) ==
    /\ results[i].fn = fn /\ results[j].fn = fn
    /\ [results[i].arg EXCEPT ![k] = Zero] = [results[j].arg EXCEPT ![k] = Zero]
    /\ ~Less(results[i].arg[k], Zero)
    /\ ~Less(results[j].arg[k], results[i].arg[k])
    /\ \A p \in Parameters(fn) \ {k} : Less(Zero, results[i].arg[p])

\* C29: calculate_shear_capacity is non-decreasing in the steel area: for
\* fixed positive b and d and every concrete grade, Ast1 <= Ast2 (Ast1 = 0
\* included) implies capacity(Ast1) <= capacity(Ast2).
C29_ShearCapacityGrowsWithSteel ==
    \A i, j \in DOMAIN results :
        SameButRaised(i, j, "calculate_shear_capacity", "Ast")
            => /\ ~IsErr(results[i].value) /\ ~IsErr(results[j].value)
               /\ ~Less(results[j].value, results[i].value)

\* C30: calculate_required_area_of_steel is non-decreasing in the design
\* moment: for fixed positive fck, fy, b and d and moments 0 <= M1 <= M2 in
\* Nmm, the steel required for M1 is not more than the steel required for M2.
C30_RequiredSteelGrowsWithMoment ==
    \A i, j \in DOMAIN results :
        SameButRaised(i, j, "calculate_required_area_of_steel", "moment")
            => /\ ~IsErr(results[i].value) /\ ~IsErr(results[j].value)
               /\ ~Less(results[j].value, results[i].value)

====
